---- MODULE Spec2Model ----
(***************************************************************************)
(* State-machine model of the personal expense tracker API:                *)
(*   app/services/sheets_service.py   the row store wrapper                *)
(*   app/services/ai_service.py       extraction and query interpretation  *)
(*   app/services/auth_service.py, app/core/dependencies.py, app/api/*.py   *)
(*                                                                         *)
(* Text values are sequences of one-character strings, so that lower(),    *)
(* substring search and number extraction are computed as the code does.   *)
(* Amounts are fixed-point numbers in hundredths (12.0 is 1200).           *)
(* Clock values and token expiry are minutes.                              *)
(***************************************************************************)
EXTENDS Integers, Sequences, FiniteSets, TLC

VARIABLES
  sheet,   \* the worksheet: a sequence of rows, each a sequence of 13 cells
  now,     \* the clock, in minutes
  resp,    \* the last request together with the response it got
  prev,    \* what the request before the last one was (history)
  inflight \* per worker, the request it has begun and not yet answered

vars == <<sheet, now, resp, prev, inflight>>

(***************************************************************************)
(* Bounds of the model.                                                    *)
(***************************************************************************)
MaxDataRows == 2   \* data rows the sheet may hold (the header excluded)
MaxDays == 1       \* token lifetimes the clock may advance by
MaxCalendarDays == 50   \* days the calendar of the date windows runs over

(***************************************************************************)
(* Cells.  A cell is tagged with the type of its value: "s" text,          *)
(* "n" an amount in hundredths, "i" an integer, "ts"/"d"/"tm" a timestamp, *)
(* date or time rendered in the named format.                              *)
(***************************************************************************)
Str(chars) == <<"s", chars>>
Num(n) == <<"n", n>>
IntCell(n) == <<"i", n>>
TsCell(fmt, t) == <<"ts", fmt, t>>
DateCell(fmt, t) == <<"d", fmt, t>>
TimeCell(fmt, t) == <<"tm", fmt, t>>

Empty == <<>>
SGD == <<"S","G","D">>
USD == <<"U","S","D">>
ExpenseWord == <<"E","x","p","e","n","s","e">>
DefaultUser == <<"d","e","f","a","u","l","t","_","u","s","e","r">>
Alice == <<"a","l","i","c","e">>
RowNumberKey == <<"r","o","w","_","n","u","m","b","e","r">>

CAT_FOOD == <<"f","o","o","d">>
CAT_TRANSPORTATION == <<"t","r","a","n","s","p","o","r","t","a","t","i","o","n">>
CAT_ENTERTAINMENT == <<"e","n","t","e","r","t","a","i","n","m","e","n","t">>
CAT_UTILITIES == <<"u","t","i","l","i","t","i","e","s">>
CAT_SHOPPING == <<"s","h","o","p","p","i","n","g">>
CAT_GROCERIES == <<"g","r","o","c","e","r","i","e","s">>
CAT_HEALTHCARE == <<"h","e","a","l","t","h","c","a","r","e">>
CAT_EDUCATION == <<"e","d","u","c","a","t","i","o","n">>
CAT_TRAVEL == <<"t","r","a","v","e","l">>
CAT_SUBSCRIPTION == <<"s","u","b","s","c","r","i","p","t","i","o","n">>
CAT_FAMILY == <<"f","a","m","i","l","y">>
CAT_OTHER == <<"o","t","h","e","r">>

ExpenseCategory ==
  {CAT_FOOD, CAT_TRANSPORTATION, CAT_ENTERTAINMENT, CAT_UTILITIES, CAT_SHOPPING, CAT_GROCERIES,
   CAT_HEALTHCARE, CAT_EDUCATION, CAT_TRAVEL, CAT_SUBSCRIPTION, CAT_FAMILY, CAT_OTHER}

expected_headers ==
  << Str(<<"T","i","m","e","s","t","a","m","p">>),
     Str(<<"D","a","t","e">>),
     Str(<<"T","i","m","e">>),
     Str(<<"A","m","o","u","n","t">>),
     Str(<<"C","u","r","r","e","n","c","y">>),
     Str(<<"C","a","t","e","g","o","r","y">>),
     Str(<<"S","u","b","c","a","t","e","g","o","r","y">>),
     Str(<<"D","e","s","c","r","i","p","t","i","o","n">>),
     Str(<<"T","a","g","s">>),
     Str(<<"L","o","c","a","t","i","o","n">>),
     Str(<<"P","a","y","m","e","n","t"," ","M","e","t","h","o","d">>),
     Str(<<"N","o","t","e","s">>),
     Str(<<"U","s","e","r"," ","I","D">>) >>

AmountKey == expected_headers[4]
CategoryKey == expected_headers[6]
DescriptionKey == expected_headers[8]
UserKey == expected_headers[13]

(***************************************************************************)
(* The worksheet calls the service makes (gspread), on a sheet s.          *)
(***************************************************************************)
append_row(s, row) == Append(s, row)

\* Two wrong removals, for comparison with delete_rows: of the last row, and
\* of the row above the one named.
DeleteLastRow(s, n) == SubSeq(s, 1, Len(s) - 1)

DeleteRowsBefore(s, n) == SubSeq(s, 1, n - 2) \o SubSeq(s, n, Len(s))

delete_rows(s, n) == SubSeq(s, 1, n - 1) \o SubSeq(s, n + 1, Len(s))

worksheet_update(s, n, row) == [s EXCEPT ![n] = row]

get_all_values(s) == s

\* worksheet.clear(): no row is left.
clear(s) == <<>>

(***************************************************************************)
(* One request's view of the store: the sheet, the store calls made so     *)
(* far, and the index (0: none) of the store call that raises.  A store    *)
(* call that raises has no effect on the sheet.                            *)
(***************************************************************************)
NewCtx(s, fault) == [sheet |-> s, calls |-> <<>>, fault |-> fault]

Called(ctx, name) == [ctx EXCEPT !.calls = Append(@, name)]

Raises(ctx) == Len(ctx.calls) + 1 = ctx.fault

(***************************************************************************)
(* Rows written by the service.                                            *)
(***************************************************************************)
RECURSIVE JoinTags(_)
JoinTags(tags) ==
  IF tags = <<>> THEN Empty
  ELSE IF Len(tags) = 1 THEN tags[1]
  ELSE tags[1] \o <<",", " ">> \o JoinTags(Tail(tags))

AddRowData(e) ==
  << TsCell("%Y-%m-%d %H:%M:%S", e.timestamp),
     DateCell("%Y-%m-%d", e.timestamp),
     TimeCell("%H:%M:%S", e.timestamp),
     Num(e.amount),
     Str(e.currency),
     Str(e.category),
     Str(e.subcategory),
     Str(e.description),
     Str(JoinTags(e.tags)),
     Str(e.location),
     Str(e.payment_method),
     Str(e.notes),
     Str(e.user_id) >>

UpdateRowData(e) ==
  << TsCell("iso", e.timestamp),
     DateCell("iso", e.timestamp),
     TimeCell("iso", e.timestamp),
     Num(e.amount),
     Str(e.currency),
     Str(e.category),
     Str(e.subcategory),
     Str(e.description),
     Str(JoinTags(e.tags)),
     Str(e.location),
     Str(e.payment_method),
     Str(e.notes),
     Str(e.user_id) >>

(***************************************************************************)
(* dict(zip(headers, row_data)) as the sequence of its (key, value) pairs; *)
(* a lookup returns the value of the last pair with the key.               *)
(***************************************************************************)
Min(a, b) == IF a < b THEN a ELSE b

Zip(keys, vals) == [i \in 1..Min(Len(keys), Len(vals)) |-> <<keys[i], vals[i]>>]

DictGet(d, key) ==
  LET last == CHOOSE i \in 1..Len(d) :
                /\ d[i][1] = key
                /\ \A j \in (i + 1)..Len(d) : d[j][1] # key
  IN d[last][2]

(***************************************************************************)
(* GoogleSheetsService.  Each operation takes the request's store context  *)
(* and returns the new context with its result.                            *)
(***************************************************************************)
\* A check that would ask for the header on an empty sheet only.
SetupWhenEmpty(all_values) == all_values = <<>>

\* setup_needed: the sheet is empty, or its first row is empty or is not the
\* expected header.
SetupNeeded(all_values) ==
  \/ all_values = <<>>
  \/ all_values[1] = <<>>
  \/ all_values[1] # expected_headers

\* "if all_values and all_values[0] != expected_headers": clear first.
ClearNeeded(all_values) == all_values # <<>> /\ all_values[1] # expected_headers

\* The except branch: append_row(expected_headers) once more.  outage: the
\* store raises again, and the exception leaves _setup_headers.
SetupFallback(ctx, outage) ==
  LET c == Called(ctx, "append_row")
  IN IF outage THEN [ctx |-> c, raised |-> TRUE]
     ELSE [ctx |-> [c EXCEPT !.sheet = append_row(ctx.sheet, expected_headers)],
           raised |-> FALSE]

\* The try block from the append on, in the context c.
SetupAppend(c, outage) ==
  LET c1 == Called(c, "append_row")
  IN IF Raises(c) THEN SetupFallback(c1, outage)
     ELSE [ctx |-> [c1 EXCEPT !.sheet = append_row(c.sheet, expected_headers)],
           raised |-> FALSE]

setup_headers(ctx, outage) ==
  LET c1 == Called(ctx, "get_all_values")
      all_values == get_all_values(ctx.sheet)
      c2 == Called(c1, "clear")
  IN IF Raises(ctx) THEN SetupFallback(c1, outage)
     ELSE IF ~SetupNeeded(all_values) THEN [ctx |-> c1, raised |-> FALSE]
     ELSE IF ~ClearNeeded(all_values) THEN SetupAppend(c1, outage)
     ELSE IF Raises(c1) THEN SetupFallback(c2, outage)
     ELSE SetupAppend([c2 EXCEPT !.sheet = clear(c1.sheet)], outage)

\* An add_expense that would call append_row again when it raises, for
\* comparison with the service's single attempt.
AddExpenseRetrying(ctx, e) ==
  LET c1 == Called(ctx, "append_row")
      c2 == IF Raises(ctx) THEN Called(c1, "append_row") ELSE c1
      c3 == Called([c2 EXCEPT !.sheet = append_row(ctx.sheet, AddRowData(e))],
                   "get_all_values")
  IN IF Raises(c2) THEN [ctx |-> c3, raised |-> TRUE, ret |-> 0]
     ELSE [ctx |-> c3, raised |-> FALSE, ret |-> Len(get_all_values(c3.sheet))]

Sheets_add_expense(ctx, e) ==
  LET c1 == Called(ctx, "append_row")
      c2 == Called([c1 EXCEPT !.sheet = append_row(ctx.sheet, AddRowData(e))],
                   "get_all_values")
  IN IF Raises(ctx) THEN [ctx |-> c1, raised |-> TRUE, ret |-> 0]
     ELSE IF Raises(c1) THEN [ctx |-> c2, raised |-> TRUE, ret |-> 0]
     ELSE [ctx |-> c2, raised |-> FALSE, ret |-> Len(get_all_values(c2.sheet))]

UpdateGuard(n, len) == n < 1 \/ n > len

Sheets_update_expense(ctx, n, e) ==
  LET c1 == Called(ctx, "get_all_values")
      c2 == Called(c1, "update")
  IN IF Raises(ctx) THEN [ctx |-> c1, ret |-> FALSE]
     ELSE IF UpdateGuard(n, Len(get_all_values(ctx.sheet)))
       THEN [ctx |-> c1, ret |-> FALSE]
     ELSE IF Raises(c1) THEN [ctx |-> c2, ret |-> FALSE]
     ELSE [ctx |-> [c2 EXCEPT !.sheet = worksheet_update(ctx.sheet, n, UpdateRowData(e))],
           ret |-> TRUE]

Sheets_delete_expense(ctx, n) ==
  LET c1 == Called(ctx, "get_all_values")
      c2 == Called(c1, "delete_rows")
  IN IF Raises(ctx) THEN [ctx |-> c1, ret |-> FALSE]
     ELSE IF n <= 1 \/ n > Len(get_all_values(ctx.sheet))
       THEN [ctx |-> c1, ret |-> FALSE]
     ELSE IF Raises(c1) THEN [ctx |-> c2, ret |-> FALSE]
     ELSE [ctx |-> [c2 EXCEPT !.sheet = delete_rows(ctx.sheet, n)], ret |-> TRUE]

\* A guard that would take row 1 for a data row, for comparison with RowGuard.
RowGuardInclusive(n, len) == n < 1 \/ n > len

RowGuard(n, len) == n <= 1 \/ n > len

Sheets_get_expense_by_row(ctx, n) ==
  LET c1 == Called(ctx, "get_all_values")
      all_values == get_all_values(ctx.sheet)
  IN IF Raises(ctx) THEN [ctx |-> c1, found |-> FALSE, expense |-> <<>>]
     ELSE IF RowGuard(n, Len(all_values))
       THEN [ctx |-> c1, found |-> FALSE, expense |-> <<>>]
     ELSE [ctx |-> c1, found |-> TRUE,
           expense |-> Append(Zip(all_values[1], all_values[n]),
                              <<Str(RowNumberKey), IntCell(n)>>)]

(***************************************************************************)
(* Text: str.lower(), str.upper(), substring search, float().              *)
(***************************************************************************)
\* c.lower() and c.upper() of one character: the letters map, the rest stay.
LowerOf ==
  [A |-> "a", B |-> "b", C |-> "c", D |-> "d", E |-> "e", F |-> "f", G |-> "g",
   H |-> "h", I |-> "i", J |-> "j", K |-> "k", L |-> "l", M |-> "m", N |-> "n",
   O |-> "o", P |-> "p", Q |-> "q", R |-> "r", S |-> "s", T |-> "t", U |-> "u",
   V |-> "v", W |-> "w", X |-> "x", Y |-> "y", Z |-> "z"]

UpperOf ==
  [a |-> "A", b |-> "B", c |-> "C", d |-> "D", e |-> "E", f |-> "F", g |-> "G",
   h |-> "H", i |-> "I", j |-> "J", k |-> "K", l |-> "L", m |-> "M", n |-> "N",
   o |-> "O", p |-> "P", q |-> "Q", r |-> "R", s |-> "S", t |-> "T", u |-> "U",
   v |-> "V", w |-> "W", x |-> "X", y |-> "Y", z |-> "Z"]

LowerChar(c) == IF c \in DOMAIN LowerOf THEN LowerOf[c] ELSE c

UpperChar(c) == IF c \in DOMAIN UpperOf THEN UpperOf[c] ELSE c

\* The text with its case kept, for comparison with Lower.
KeepCase(text) == text

Lower(text) == [i \in 1..Len(text) |-> LowerChar(text[i])]

Upper(text) == [i \in 1..Len(text) |-> UpperChar(text[i])]

\* word in text
Contains(text, word) ==
  \E i \in 1..(Len(text) - Len(word) + 1) :
    \A j \in 1..Len(word) : text[i + j - 1] = word[j]

\* The first index of c in chars, 0 when it has none.
IndexIn(chars, c) ==
  IF \E i \in 1..Len(chars) : chars[i] = c
  THEN CHOOSE i \in 1..Len(chars) : chars[i] = c /\ \A j \in 1..(i - 1) : chars[j] # c
  ELSE 0

Digits == <<"0","1","2","3","4","5","6","7","8","9">>

IsDigit(c) == c \in {"0","1","2","3","4","5","6","7","8","9"}

DigitVal(c) == IndexIn(Digits, c) - 1

RECURSIVE DigitsValue(_)
DigitsValue(ds) ==
  IF ds = <<>> THEN 0
  ELSE DigitsValue(SubSeq(ds, 1, Len(ds) - 1)) * 10 + DigitVal(ds[Len(ds)])

\* The index of the last digit of the run of digits that starts at i.
RECURSIVE DigitRunEnd(_, _)
DigitRunEnd(text, i) ==
  IF i < Len(text) /\ IsDigit(text[i + 1]) THEN DigitRunEnd(text, i + 1) ELSE i

\* float(chars) for chars of the shape digits [ "." [digits] ], in hundredths;
\* IsFloat says whether chars has that shape.  The other literals float()
\* accepts (signs, exponents, "inf", "nan", blanks) are not among the inputs.
DotIndex(chars) == IndexIn(chars, ".")

IntDigits(chars) ==
  IF DotIndex(chars) = 0 THEN chars ELSE SubSeq(chars, 1, DotIndex(chars) - 1)

FracDigits(chars) ==
  IF DotIndex(chars) = 0 THEN <<>> ELSE SubSeq(chars, DotIndex(chars) + 1, Len(chars))

IsFloat(chars) ==
  /\ IntDigits(chars) # <<>>
  /\ \A i \in 1..Len(IntDigits(chars)) : IsDigit(IntDigits(chars)[i])
  /\ \A i \in 1..Len(FracDigits(chars)) : IsDigit(FracDigits(chars)[i])

Float(chars) ==
  LET frac == FracDigits(chars)
  IN DigitsValue(IntDigits(chars)) * 100
     + (IF Len(frac) >= 1 THEN DigitVal(frac[1]) * 10 ELSE 0)
     + (IF Len(frac) >= 2 THEN DigitVal(frac[2]) ELSE 0)

(***************************************************************************)
(* GoogleAIService._fallback_parse.                                        *)
(***************************************************************************)
\* The last digit of the text, for comparison with amount_match.
AmountMatchLast(text) ==
  IF \E i \in 1..Len(text) : IsDigit(text[i])
  THEN LET p == CHOOSE i \in 1..Len(text) :
                  /\ IsDigit(text[i])
                  /\ \A j \in (i + 1)..Len(text) : ~IsDigit(text[j])
       IN SubSeq(text, p, p)
  ELSE <<>>

\* re.search(r'\$?(\d+\.?\d*)', text): group 1, or <<>> when nothing matches.
amount_match(text) ==
  IF \E i \in 1..Len(text) : IsDigit(text[i])
  THEN LET p == CHOOSE i \in 1..Len(text) :
                  /\ IsDigit(text[i])
                  /\ \A j \in 1..(i - 1) : ~IsDigit(text[j])
           q == DigitRunEnd(text, p)
           r == IF q < Len(text) /\ text[q + 1] = "."
                THEN (IF q + 1 < Len(text) /\ IsDigit(text[q + 2])
                      THEN DigitRunEnd(text, q + 2) ELSE q + 1)
                ELSE q
       IN SubSeq(text, p, r)
  ELSE <<>>

FoodWords ==
  { <<"e","a","t">>, <<"f","o","o","d">>, <<"l","u","n","c","h">>,
    <<"d","i","n","n","e","r">>, <<"b","r","e","a","k","f","a","s","t">>,
    <<"r","e","s","t","a","u","r","a","n","t">> }

TransportWords ==
  { <<"t","r","a","n","s","p","o","r","t">>, <<"t","a","x","i">>, <<"b","u","s">>,
    <<"t","r","a","i","n">>, <<"g","r","a","b">> }

ShoppingWords ==
  { <<"s","h","o","p">>, <<"b","u","y">>, <<"p","u","r","c","h","a","s","e">> }

FamilyWords ==
  { <<"k","i","d","s">>, <<"t","o","y","s">> }

AnyWordIn(words, text_lower) == \E w \in words : Contains(text_lower, w)

FallbackCategory(text) ==
  LET text_lower == Lower(text)
  IN IF AnyWordIn(FoodWords, text_lower) THEN CAT_FOOD
     ELSE IF AnyWordIn(TransportWords, text_lower) THEN CAT_TRANSPORTATION
     ELSE IF AnyWordIn(ShoppingWords, text_lower) THEN CAT_SHOPPING
     ELSE IF AnyWordIn(FamilyWords, text_lower) THEN CAT_FAMILY
     ELSE CAT_OTHER

\* A ParsedExpense; an absent optional field is the empty text.
ParsedExpense(timestamp, amount, currency, category, description) ==
  [timestamp |-> timestamp, amount |-> amount, currency |-> currency,
   category |-> category, subcategory |-> Empty, description |-> description,
   tags |-> <<>>, location |-> Empty, payment_method |-> Empty,
   notes |-> Empty, user_id |-> DefaultUser]

fallback_parse(text, clock) ==
  LET m == amount_match(text)
      amount == IF m # <<>> THEN Float(m) ELSE 0
  IN ParsedExpense(clock, amount, SGD, FallbackCategory(text), text)

(***************************************************************************)
(* The extraction model's reply.  reply.raises: generate_content raised.   *)
(* Otherwise reply.text is the reply as a sequence of segments:            *)
(*   <<"prose">>        text holding no brace and no JSON                  *)
(*   <<"fence", f>>     a code-fence marker: f = "json" is the marker      *)
(*                      followed by json, f = "plain" the bare marker      *)
(*   <<"obj", data>>    a JSON object, data its fields                     *)
(*   <<"list">>         a JSON array, <<"null">> JSON null                 *)
(* A JSON field value is Num(n), Str(chars) or <<"null">>.                 *)
(***************************************************************************)
JsonNull == <<"null">>

IsJsonSegment(seg) == seg[1] \in {"obj", "list", "null"}

\* re.search(r'\{.*\}', text, re.DOTALL): from the first brace to the last.
extract_json_from_response(text) ==
  LET objs == {i \in 1..Len(text) : text[i][1] = "obj"}
  IN IF objs # {}
     THEN SubSeq(text,
                 CHOOSE i \in objs : \A j \in objs : i <= j,
                 CHOOSE i \in objs : \A j \in objs : j <= i)
     ELSE text

\* json.loads: the text must be exactly one JSON value.
JsonLoads(text) ==
  IF Len(text) = 1 /\ IsJsonSegment(text[1])
  THEN [raised |-> FALSE, value |-> text[1]]
  ELSE [raised |-> TRUE, value |-> JsonNull]

DataGet(data, key, default) == IF key \in DOMAIN data THEN data[key] ELSE default

SupportedCurrencies ==
  { <<"U","S","D">>, <<"E","U","R">>, <<"G","B","P">>, <<"J","P","Y">>,
    <<"C","N","Y">>, <<"M","Y","R">>, <<"T","H","B">>, <<"I","D","R">>,
    <<"P","H","P">>, <<"V","N","D">> }

NormalizeCategory(category) ==
  IF category \notin ExpenseCategory THEN CAT_OTHER ELSE category

\* GoogleAIService._convert_to_expense_model on a loaded JSON value; the
\* timestamp is the current time (the sampled replies name none).
convert_to_expense_model(value, clock) ==
  LET failed == [raised |-> TRUE, expense |-> <<>>]
  IN IF value[1] # "obj" THEN failed
     ELSE
       LET data == value[2]
           category == DataGet(data, "category", Str(CAT_OTHER))
           currency == DataGet(data, "currency", Str(SGD))
           description == DataGet(data, "description", Str(ExpenseWord))
       IN IF category[1] # "s" \/ currency[1] # "s" THEN failed
          ELSE IF "amount" \notin DOMAIN data THEN failed
          ELSE IF data["amount"][1] = "null" THEN failed
          ELSE IF data["amount"][1] = "s" /\ ~IsFloat(data["amount"][2]) THEN failed
          ELSE IF description[1] # "s" THEN failed
          ELSE [raised |-> FALSE,
                expense |-> << ParsedExpense(
                  clock,
                  IF data["amount"][1] = "s" THEN Float(data["amount"][2])
                                             ELSE data["amount"][2],
                  IF Upper(currency[2]) \notin SupportedCurrencies
                    THEN SGD ELSE Upper(currency[2]),
                  NormalizeCategory(Lower(category[2])),
                  description[2]) >>]

\* GoogleAIService.parse_expense_text: the expense and the path that made it.
parse_expense_text(text, reply, clock) ==
  LET loaded == JsonLoads(extract_json_from_response(reply.text))
      converted == convert_to_expense_model(loaded.value, clock)
  IN IF reply.raises \/ loaded.raised \/ converted.raised
     THEN [expense |-> fallback_parse(text, clock), path |-> "fallback"]
     ELSE [expense |-> converted.expense[1], path |-> "model"]

(***************************************************************************)
(* Authentication: AuthService, get_current_user.  A token is the record   *)
(* of its signing key and its claims.                                      *)
(***************************************************************************)
access_token_expire_minutes == 1440

static_password == "static_password"

jwt_secret_key == "jwt_secret_key"

verify_password(password) == password = static_password

create_access_token(data, clock) ==
  [key |-> jwt_secret_key, sub |-> data.sub, type |-> data.type,
   exp |-> clock + access_token_expire_minutes]

\* <<>> is None.
authenticate(password, clock) ==
  IF ~verify_password(password) THEN <<>>
  ELSE << create_access_token([sub |-> "default_user", type |-> "access"], clock) >>

\* A decode that would not check the signature, for comparison with verify_token.
verify_token_unsigned(token, clock) ==
  IF token.exp < clock
  THEN [raised |-> TRUE, payload |-> <<>>]
  ELSE [raised |-> FALSE, payload |-> <<token>>]

\* jwt.decode raises JWTError on a bad signature and on exp < now.
verify_token(token, clock) ==
  IF token.key # jwt_secret_key \/ token.exp < clock
  THEN [raised |-> TRUE, payload |-> <<>>]
  ELSE [raised |-> FALSE, payload |-> <<token>>]

\* Whether the dependency lets the request through (else it answers 401).
get_current_user(token, clock) ==
  LET v == verify_token(token, clock)
  IN IF v.raised THEN FALSE
     ELSE IF v.payload[1].type # "access" THEN FALSE
     ELSE TRUE

(***************************************************************************)
(* Requests and responses.                                                 *)
(***************************************************************************)
NoToken == [key |-> "none", sub |-> "none", type |-> "none", exp |-> 0]

StoreError == "StoreError"

\* A response, with what the request was: its operation, token and inputs, the
\* clock and the sheet when it arrived (at, before), the store call chosen to
\* raise (fault), the store calls made (calls), whether the model call raised.
\* args holds the arguments of a direct call of a read operation.
Response(op, token) ==
  [op |-> op, token |-> token, row |-> 0, status |-> 0, ok |-> FALSE,
   detail |-> <<>>, text |-> <<>>, user |-> <<>>, path |-> "none",
   expense |-> <<>>, record |-> <<>>, row_number |-> 0,
   calls |-> <<>>, model_calls |-> 0, issued |-> <<>>, before |-> sheet,
   route |-> "none", exc |-> "none", at |-> now, fault |-> 0,
   model_raised |-> FALSE, intent |-> <<"null">>, data |-> <<>>,
   args |-> <<>>]

\* Whether a store call of the request raised: the call chosen to raise was made.
Raised(r) == r.fault \in 1..Len(r.calls)

Unauthorized(op, token) ==
  [Response(op, token) EXCEPT !.status = 401,
                              !.detail = <<"Could not validate credentials">>]

\* What is remembered of the request before the last one: a successful add
\* or delete, with the row it returned or removed.
\* shifted holds the row that stood below the removed one, if any.
Project(r) ==
  IF r.op = "add_expense" /\ r.status = 200
  THEN [op |-> r.op, path |-> r.path, row |-> r.row_number,
        text |-> r.text, user |-> r.user, shifted |-> <<>>]
  ELSE IF r.op = "delete_expense_by_row" /\ r.status = 200
  THEN [op |-> r.op, path |-> "none", row |-> r.row, text |-> <<>>, user |-> <<>>,
        shifted |-> IF r.row < Len(r.before) THEN <<r.before[r.row + 1]>> ELSE <<>>]
  ELSE [op |-> "other", path |-> "none", row |-> 0, text |-> <<>>, user |-> <<>>,
        shifted |-> <<>>]

(***************************************************************************)
(* app/api/auth.py                                                         *)
(***************************************************************************)
login(password) ==
  LET access_token == authenticate(password, now)
      base == [Response("login", NoToken) EXCEPT !.text = <<password>>]
  IN /\ resp' = IF access_token = <<>>
                THEN [base EXCEPT !.status = 401, !.detail = <<"Invalid password">>]
                ELSE [base EXCEPT !.status = 200, !.ok = TRUE,
                                  !.issued = access_token]
     /\ prev' = Project(resp)
     /\ UNCHANGED <<sheet, now, inflight>>

(***************************************************************************)
(* app/api/expenses.py: the row endpoints.  Every handler runs behind the  *)
(* get_current_user dependency.                                            *)
(***************************************************************************)
add_expense(token, text, user_id, reply, fault) ==
  LET p == parse_expense_text(text, reply, now)
      parsed_expense == [p.expense EXCEPT !.user_id = user_id]
      r == Sheets_add_expense(NewCtx(sheet, fault), parsed_expense)
      base == [Response("add_expense", token) EXCEPT
                 !.text = text, !.user = user_id, !.fault = fault]
  IN /\ Len(sheet) < MaxDataRows + 1
     /\ IF ~get_current_user(token, now)
        THEN /\ resp' = [Unauthorized("add_expense", token) EXCEPT
                           !.text = text, !.user = user_id, !.fault = fault]
             /\ sheet' = sheet
        ELSE /\ sheet' = r.ctx.sheet
             /\ resp' = IF r.raised
                        THEN [base EXCEPT
                                !.status = 500,
                                !.detail = <<"Failed to process expense: ", StoreError>>,
                                !.path = p.path, !.model_calls = 1,
                                !.model_raised = reply.raises,
                                !.calls = r.ctx.calls]
                        ELSE [base EXCEPT
                                !.status = 200, !.ok = TRUE,
                                !.path = p.path, !.model_calls = 1,
                                !.model_raised = reply.raises,
                                !.expense = <<parsed_expense>>,
                                !.row_number = r.ret,
                                !.calls = r.ctx.calls]
     /\ prev' = Project(resp)
     /\ UNCHANGED <<now, inflight>>

\* raise HTTPException(404) inside the try; "except HTTPException: raise".
NotFound(base, calls) ==
  [base EXCEPT !.status = 404, !.detail = <<"Expense at row not found">>,
               !.calls = calls]

update_expense_by_row(token, row_number, expense_input, fault) ==
  LET g == Sheets_get_expense_by_row(NewCtx(sheet, fault), row_number)
      u == Sheets_update_expense(g.ctx, row_number, expense_input)
      base == [Response("update_expense_by_row", token) EXCEPT
                 !.row = row_number, !.fault = fault]
  IN /\ IF ~get_current_user(token, now)
        THEN /\ resp' = [Unauthorized("update_expense_by_row", token) EXCEPT
                           !.row = row_number, !.fault = fault]
             /\ sheet' = sheet
        ELSE IF ~g.found
        THEN /\ resp' = NotFound(base, g.ctx.calls)
             /\ sheet' = g.ctx.sheet
        ELSE /\ sheet' = u.ctx.sheet
             /\ resp' = IF ~u.ret
                        THEN [base EXCEPT
                                !.status = 500,
                                !.detail = <<"Failed to update expense at row">>,
                                !.calls = u.ctx.calls]
                        ELSE [base EXCEPT
                                !.status = 200, !.ok = TRUE,
                                !.expense = <<expense_input>>,
                                !.row_number = row_number,
                                !.calls = u.ctx.calls]
     /\ prev' = Project(resp)
     /\ UNCHANGED <<now, inflight>>

delete_expense_by_row(token, row_number, fault) ==
  LET g == Sheets_get_expense_by_row(NewCtx(sheet, fault), row_number)
      d == Sheets_delete_expense(g.ctx, row_number)
      base == [Response("delete_expense_by_row", token) EXCEPT
                 !.row = row_number, !.fault = fault]
  IN /\ IF ~get_current_user(token, now)
        THEN /\ resp' = [Unauthorized("delete_expense_by_row", token) EXCEPT
                           !.row = row_number, !.fault = fault]
             /\ sheet' = sheet
        ELSE IF ~g.found
        THEN /\ resp' = NotFound(base, g.ctx.calls)
             /\ sheet' = g.ctx.sheet
        ELSE /\ sheet' = d.ctx.sheet
             /\ resp' = IF ~d.ret
                        THEN [base EXCEPT
                                !.status = 500,
                                !.detail = <<"Failed to delete expense at row">>,
                                !.calls = d.ctx.calls]
                        ELSE [base EXCEPT
                                !.status = 200, !.ok = TRUE,
                                !.record = <<g.expense>>,
                                !.calls = d.ctx.calls]
     /\ prev' = Project(resp)
     /\ UNCHANGED <<now, inflight>>

get_expense_by_row(token, row_number, fault) ==
  LET g == Sheets_get_expense_by_row(NewCtx(sheet, fault), row_number)
      base == [Response("get_expense_by_row", token) EXCEPT
                 !.row = row_number, !.fault = fault]
  IN /\ IF ~get_current_user(token, now)
        THEN /\ resp' = [Unauthorized("get_expense_by_row", token) EXCEPT
                           !.row = row_number, !.fault = fault]
             /\ sheet' = sheet
        ELSE /\ sheet' = g.ctx.sheet
             /\ resp' = IF ~g.found
                        THEN NotFound(base, g.ctx.calls)
                        ELSE [base EXCEPT
                                !.status = 200, !.ok = TRUE,
                                !.record = <<g.expense>>,
                                !.calls = g.ctx.calls]
     /\ prev' = Project(resp)
     /\ UNCHANGED <<now, inflight>>

(***************************************************************************)
(* Calendar dates: a date is [y, m, d].                                    *)
(***************************************************************************)
IsLeap(y) == (y % 4 = 0 /\ y % 100 # 0) \/ y % 400 = 0

DaysInMonth(y, m) ==
  IF m \in {1, 3, 5, 7, 8, 10, 12} THEN 31
  ELSE IF m \in {4, 6, 9, 11} THEN 30
  ELSE IF IsLeap(y) THEN 29 ELSE 28

\* date - timedelta(days=1)
PrevDay(date) ==
  IF date.d > 1 THEN [date EXCEPT !.d = @ - 1]
  ELSE IF date.m > 1
    THEN [y |-> date.y, m |-> date.m - 1, d |-> DaysInMonth(date.y, date.m - 1)]
  ELSE [y |-> date.y - 1, m |-> 12, d |-> 31]

\* date.replace(day=1)
FirstOfMonth(date) == [date EXCEPT !.d = 1]

\* date + timedelta(days=1)
NextDay(date) ==
  IF date.d < DaysInMonth(date.y, date.m) THEN [date EXCEPT !.d = @ + 1]
  ELSE IF date.m < 12 THEN [y |-> date.y, m |-> date.m + 1, d |-> 1]
  ELSE [y |-> date.y + 1, m |-> 1, d |-> 1]

RECURSIVE AddDays(_, _)
AddDays(date, n) == IF n = 0 THEN date ELSE AddDays(NextDay(date), n - 1)

\* The date at which the clock reads 0, and the date of a timestamp.
EpochDate == [y |-> 2024, m |-> 1, d |-> 15]

DateOf(t) == AddDays(EpochDate, t \div (24 * 60))

\* d1 <= d2
DateLE(d1, d2) ==
  \/ d1.y < d2.y
  \/ d1.y = d2.y /\ d1.m < d2.m
  \/ d1.y = d2.y /\ d1.m = d2.m /\ d1.d <= d2.d

\* tm_yday (from 0) and tm_wday (Sunday 0) of a date of the years 2001..2099,
\* and strftime's %U: the week of the year, weeks starting on Sunday.
RECURSIVE DaysBeforeMonth(_, _)
DaysBeforeMonth(y, m) ==
  IF m = 1 THEN 0 ELSE DaysBeforeMonth(y, m - 1) + DaysInMonth(y, m - 1)

YearDay(date) == DaysBeforeMonth(date.y, date.m) + date.d - 1

\* 2001-01-01 was a Monday.
WeekDay(date) ==
  (1 + 365 * (date.y - 2001) + (date.y - 2001) \div 4 + YearDay(date)) % 7

WeekOfYear(date) == (YearDay(date) + 7 - WeekDay(date)) \div 7

\* date.weekday(): Monday is 0, Sunday 6.
weekday(date) == (WeekDay(date) + 6) % 7

\* date - timedelta(days=n)
RECURSIVE SubDays(_, _)
SubDays(date, n) == IF n = 0 THEN date ELSE SubDays(PrevDay(date), n - 1)

\* date.isoformat(): the text YYYY-MM-DD of a date of the years 1..9999.
TwoDigits(n) == << Digits[((n \div 10) % 10) + 1], Digits[(n % 10) + 1] >>

isoformat(date) ==
  TwoDigits(date.y \div 100) \o TwoDigits(date.y % 100) \o <<"-">>
    \o TwoDigits(date.m) \o <<"-">> \o TwoDigits(date.d)

\* datetime.fromisoformat(text).date() of a text of ten characters: <<date>>,
\* and <<>> where it raises ValueError.  The longer forms it accepts (with a
\* time of day) are not among the inputs.
IsoDateOf(y, m, d) ==
  IF y >= 1 /\ m \in 1..12 /\ d >= 1 /\ d <= DaysInMonth(y, IF m \in 1..12 THEN m ELSE 1)
  THEN << [y |-> y, m |-> m, d |-> d] >> ELSE <<>>

fromisoformat(text) ==
  IF /\ Len(text) = 10 /\ text[5] = "-" /\ text[8] = "-"
     /\ \A i \in {1, 2, 3, 4, 6, 7, 9, 10} : IsDigit(text[i])
  THEN IsoDateOf(DigitsValue(SubSeq(text, 1, 4)), DigitsValue(SubSeq(text, 6, 7)),
                 DigitsValue(SubSeq(text, 9, 10)))
  ELSE <<>>

(***************************************************************************)
(* GoogleAIService.parse_analytics_query.  An intent is a loaded JSON      *)
(* value; in an object, a field holds JStr(name), JArr(items), JBool(b),   *)
(* JDate(date) (the string date.isoformat() gives) or JsonNull.            *)
(***************************************************************************)
JStr(name) == <<"js", name>>
JArr(items) == <<"arr", items>>
JBool(b) == <<"bool", b>>
JDate(date) == <<"date", isoformat(date)>>

ComparisonWords ==
  { <<"v","s">>, <<"v","e","r","s","u","s">>, <<"c","o","m","p","a","r","e">>,
    <<"c","o","m","p","a","r","i","s","o","n">> }

ThisMonth == <<"t","h","i","s"," ","m","o","n","t","h">>
LastMonth == <<"l","a","s","t"," ","m","o","n","t","h">>

\* The day before today, whatever the day of the month.
DayBeforeToday(today) == PrevDay(today)

\* (today.replace(day=1) - timedelta(days=1))
LastDayOfLastMonth(today) == PrevDay(FirstOfMonth(today))

Window(label, start_date, end_date) ==
  <<"obj", [label |-> JStr(label), start_date |-> start_date, end_date |-> end_date]>>

fallback_query_parsing(query, today) ==
  LET query_lower == Lower(query)
      is_comparison == AnyWordIn(ComparisonWords, query_lower)
      last_end == LastDayOfLastMonth(today)
  IN <<"obj",
       [analysis_type |-> IF is_comparison THEN JStr("comparison")
                                           ELSE JStr("category_breakdown"),
        comparison_type |-> IF is_comparison THEN JStr("time_periods") ELSE JsonNull,
        time_periods |->
          IF Contains(query_lower, ThisMonth) /\ Contains(query_lower, LastMonth)
          THEN JArr(<< Window("This Month", JDate(FirstOfMonth(today)), JDate(today)),
                       Window("Last Month", JDate(FirstOfMonth(last_end)),
                              JDate(last_end)) >>)
          ELSE JArr(<< Window("all time", JsonNull, JsonNull) >>),
        categories |-> JsonNull,
        granularity |-> JStr("month"),
        specific_insights |-> JArr(<<>>),
        chart_type |-> IF is_comparison THEN JStr("comparison_bar") ELSE JStr("pie"),
        include_category_breakdown |-> JBool(TRUE)] >>

\* result_text[7:] when it starts with the json fence, [:-3] when it ends
\* with the bare fence.
StripFences(text) ==
  LET t1 == IF Len(text) > 0 /\ text[1] = <<"fence", "json">> THEN Tail(text) ELSE text
  IN IF Len(t1) > 0 /\ t1[Len(t1)] = <<"fence", "plain">>
     THEN SubSeq(t1, 1, Len(t1) - 1) ELSE t1

parse_analytics_query(query, reply, today) ==
  LET loaded == JsonLoads(StripFences(reply.text))
  IN IF reply.raises \/ loaded.raised
     THEN [intent |-> fallback_query_parsing(query, today), path |-> "fallback"]
     ELSE [intent |-> loaded.value, path |-> "model"]

(***************************************************************************)
(* AnalyticsService._parse_time_range: the window of the first phrase of   *)
(* its chain the query holds, on the current date.  A bound is <<date>>,   *)
(* or <<>> for None.                                                       *)
(***************************************************************************)
ThisWeek == <<"t","h","i","s"," ","w","e","e","k">>
LastWeek == <<"l","a","s","t"," ","w","e","e","k">>
ThisYear == <<"t","h","i","s"," ","y","e","a","r">>
LastYear == <<"l","a","s","t"," ","y","e","a","r">>
Last30Days == <<"l","a","s","t"," ","3","0"," ","d","a","y","s">>
PastMonth == <<"p","a","s","t"," ","m","o","n","t","h">>
Last7Days == <<"l","a","s","t"," ","7"," ","d","a","y","s">>
PastWeek == <<"p","a","s","t"," ","w","e","e","k">>

DateRange(start_date, end_date) ==
  [start_date |-> <<start_date>>, end_date |-> <<end_date>>]

\* The first day of the month before, with the year of today kept.
LastMonthStartThisYear(today) ==
  [y |-> today.y, m |-> IF today.m = 1 THEN 12 ELSE today.m - 1, d |-> 1]

LastMonthStart(today) ==
  IF today.m = 1 THEN [y |-> today.y - 1, m |-> 12, d |-> 1]
  ELSE [y |-> today.y, m |-> today.m - 1, d |-> 1]

LastMonthEnd(today) ==
  IF today.m = 1 THEN [y |-> today.y - 1, m |-> 12, d |-> 31]
  ELSE PrevDay(FirstOfMonth(today))

\* The days since the start of a week that begins on Sunday.
DaysSinceSunday(today) == WeekDay(today)

\* days_since_monday = today.weekday()
DaysSinceMonday(today) == weekday(today)

\* end_date = today - timedelta(days=days_since_monday + 1)
LastWeekEnd(today) == SubDays(today, DaysSinceMonday(today) + 1)

parse_time_range(query, today) ==
  IF Contains(query, ThisMonth) THEN DateRange(FirstOfMonth(today), today)
  ELSE IF Contains(query, LastMonth)
    THEN DateRange(LastMonthStart(today), LastMonthEnd(today))
  ELSE IF Contains(query, ThisWeek)
    THEN DateRange(SubDays(today, DaysSinceMonday(today)), today)
  ELSE IF Contains(query, LastWeek)
    THEN DateRange(SubDays(LastWeekEnd(today), 6), LastWeekEnd(today))
  ELSE IF Contains(query, ThisYear)
    THEN DateRange([y |-> today.y, m |-> 1, d |-> 1], today)
  ELSE IF Contains(query, LastYear)
    THEN DateRange([y |-> today.y - 1, m |-> 1, d |-> 1],
                   [y |-> today.y - 1, m |-> 12, d |-> 31])
  ELSE IF Contains(query, Last30Days) \/ Contains(query, PastMonth)
    THEN DateRange(SubDays(today, 30), today)
  ELSE IF Contains(query, Last7Days) \/ Contains(query, PastWeek)
    THEN DateRange(SubDays(today, 7), today)
  ELSE [start_date |-> <<>>, end_date |-> <<>>]

(***************************************************************************)
(* GoogleSheetsService: the reads behind the analyses.  An optional        *)
(* argument is <<>> (None) or <<value>>.  Amounts are exact hundredths:    *)
(* sums are exact, and a quotient is kept as a fraction in lowest terms.   *)
(***************************************************************************)
RECURSIVE Gcd(_, _)
Gcd(a, b) == IF b = 0 THEN a ELSE Gcd(b, a % b)

Abs(n) == IF n < 0 THEN -n ELSE n

\* a / b for b > 0.
Ratio(a, b) ==
  LET g == Gcd(Abs(a), b)
  IN <<"q", a \div g, b \div g>>

\* The int 0 a handler returns in place of a quotient.
Zero == <<"q", 0, 1>>

\* The records numbered from 1, as range(1, len(df) + 1) would number them.
RecordsNumberedFromOne(s) ==
  [k \in 1..(Len(s) - 1) |-> [row_number |-> k, cells |-> s[k + 1]]]

\* worksheet.get_all_records(): the rows below row 1, keyed by row 1's cells,
\* each with the row_number get_expenses gives it.
get_all_records(s) ==
  [k \in 1..(Len(s) - 1) |-> [row_number |-> k + 1, cells |-> s[k + 1]]]

Field(s, record, key) == record.cells[IndexIn(s[1], key)]

DateKey == expected_headers[2]

AmountOf(s, record) == Field(s, record, AmountKey)[2]

CategoryOf(s, record) == Field(s, record, CategoryKey)[2]

DateOfRecord(s, record) == DateOf(Field(s, record, DateKey)[3])

get_expenses(s, user_id, start_date, end_date, category) ==
  LET Keep(record) ==
        /\ Field(s, record, UserKey) = Str(user_id)
        /\ start_date = <<>> \/ DateLE(start_date[1], DateOfRecord(s, record))
        /\ end_date = <<>> \/ DateLE(DateOfRecord(s, record), end_date[1])
        /\ \/ category = <<>>
           \/ category[1] = Empty
           \/ Lower(CategoryOf(s, record)) = Lower(category[1])
  IN SelectSeq(get_all_records(s), Keep)

RECURSIVE SumSeq(_)
SumSeq(amounts) ==
  IF amounts = <<>> THEN 0 ELSE Head(amounts) + SumSeq(Tail(amounts))

Amounts(s, records) == [i \in 1..Len(records) |-> AmountOf(s, records[i])]

\* df.groupby(column)['Amount'].sum().to_dict(): keys[i] is the group of the
\* i-th record, amounts[i] its amount.
GroupSums(keys, amounts) ==
  LET Of(key) == [i \in 1..Len(keys) |-> IF keys[i] = key THEN amounts[i] ELSE 0]
  IN [key \in {keys[i] : i \in 1..Len(keys)} |-> SumSeq(Of(key))]

\* df.groupby('Category')['Amount'].sum().to_dict() over the expenses read.
SumByCategory(s, expenses) ==
  GroupSums([i \in 1..Len(expenses) |-> CategoryOf(s, expenses[i])],
            Amounts(s, expenses))

get_spending_by_category(s, user_id, start_date, end_date) ==
  SumByCategory(s, get_expenses(s, user_id, start_date, end_date, <<>>))

\* The sum of the user's amounts whatever their dates, as a total that left
\* the window out would be.
TotalOfAllDates(s, user_id, start_date, end_date) ==
  SumSeq(Amounts(s, get_expenses(s, user_id, <<>>, <<>>, <<>>)))

get_total_spending(s, user_id, start_date, end_date) ==
  SumSeq(Amounts(s, get_expenses(s, user_id, start_date, end_date, <<>>)))

TimePeriods == {"day", "week", "month", "year"}

\* df['Date'].dt.strftime of the period's format.
PeriodKey(period, date) ==
  IF period = "day" THEN <<"%Y-%m-%d", date.y, date.m, date.d>>
  ELSE IF period = "week" THEN <<"%Y-W%U", date.y, WeekOfYear(date)>>
  ELSE IF period = "month" THEN <<"%Y-%m", date.y, date.m>>
  ELSE <<"%Y", date.y>>

\* The grouping of the expenses read, after "if df.empty: return {}".  period
\* is the JSON value the intent gave as granularity: with rows to group, a
\* period outside TimePeriods raises ValueError.
SumByPeriod(s, expenses, period) ==
  IF expenses = <<>> THEN [raised |-> FALSE, value |-> <<>>]
  ELSE IF period[1] # "js" \/ period[2] \notin TimePeriods
    THEN [raised |-> TRUE, value |-> <<>>]
  ELSE [raised |-> FALSE,
        value |-> GroupSums(
          [i \in 1..Len(expenses) |->
             PeriodKey(period[2], DateOfRecord(s, expenses[i]))],
          Amounts(s, expenses))]

get_spending_by_time_period(s, user_id, period, start_date, end_date) ==
  SumByPeriod(s, get_expenses(s, user_id, start_date, end_date, <<>>), period)

(***************************************************************************)
(* AnalyticsService: the insights of the two comparisons.  An insight is a *)
(* tagged tuple of what the sentence reports: amounts in hundredths as     *)
(* :.2f renders them, percentages in tenths as :.1f renders them.          *)
(***************************************************************************)
\* The double evaluation of (b/100 - a/100) / (a/100) * 100 against the exact
\* quotient, where the two can be told apart (the quotient is the bound the
\* code compares with): the pairs <<a, b>> of the amounts tried below whose
\* double is larger (DoubleAbove) or smaller (DoubleBelow) in magnitude.
\* 0.84 - 0.70 over 0.70 times 100 is 20.000000000000004, and
\* 0.56 - 0.70 over 0.70 times 100 is -19.999999999999986.
DoubleAbove == { <<70, 84>> }

DoubleBelow == { <<70, 56>> }

DoubleSign(a, b) ==
  IF <<a, b>> \in DoubleAbove THEN 1
  ELSE IF <<a, b>> \in DoubleBelow THEN -1
  ELSE 0

\* abs(percent_change) > limit, for a > 0.
PercentExceeds(a, b, limit) ==
  LET magnitude == Abs(b - a) * 100
  IN \/ magnitude > limit * a
     \/ magnitude = limit * a /\ DoubleSign(a, b) > 0

\* The tenths :.1f renders of magnitude / base * 100 (base > 0): the nearest
\* tenth, and at a tie the side the double lies on, the even tenth when the
\* double is the tie itself.
FormatRatio(magnitude, base, sign) ==
  LET scaled == magnitude * 1000
      q == scaled \div base
      r == scaled % base
  IN IF 2 * r > base THEN q + 1
     ELSE IF 2 * r < base THEN q
     ELSE IF sign > 0 THEN q + 1
     ELSE IF sign < 0 THEN q
     ELSE IF q % 2 = 0 THEN q ELSE q + 1

FormatPercent(a, b) == FormatRatio(Abs(b - a), a, DoubleSign(a, b))

\* The percentage with any baseline but 0 taken as a divisor.
PercentOfNonZero(a, b) ==
  IF a # 0 THEN FormatRatio(Abs(b - a), Abs(a), 0) ELSE 0

\* percent_change = (diff / amounts[0] * 100) if amounts[0] > 0 else 0
PercentOrZero(a, b) == IF a > 0 THEN FormatPercent(a, b) ELSE 0

\* max(period_data, key=total_spending): the first of the largest.
MaxPeriod(period_data) ==
  CHOOSE i \in 1..Len(period_data) :
    /\ \A j \in 1..Len(period_data) :
         period_data[j].total_spending <= period_data[i].total_spending
    /\ \A j \in 1..(i - 1) :
         period_data[j].total_spending < period_data[i].total_spending

\* min(period_data, key=total_spending): the first of the smallest.
MinPeriod(period_data) ==
  CHOOSE i \in 1..Len(period_data) :
    /\ \A j \in 1..Len(period_data) :
         period_data[j].total_spending >= period_data[i].total_spending
    /\ \A j \in 1..(i - 1) :
         period_data[j].total_spending > period_data[i].total_spending

generate_comparison_insights(period_data) ==
  IF Len(period_data) < 2 THEN <<>>
  ELSE
    LET a == period_data[1].total_spending
        b == period_data[2].total_spending
        diff == b - a
        change == IF diff > 0 THEN <<"increased", diff, PercentOrZero(a, b)>>
                  ELSE IF diff < 0 THEN <<"decreased", Abs(diff), PercentOrZero(a, b)>>
                  ELSE <<"same">>
        max_period == period_data[MaxPeriod(period_data)]
        min_period == period_data[MinPeriod(period_data)]
    IN IF max_period # min_period
       THEN << change,
               <<"highest", max_period.label, max_period.total_spending>>,
               <<"lowest", min_period.label, min_period.total_spending>> >>
       ELSE << change >>

\* str.title(): a letter after a non-letter is upper-cased, the others lowered.
IsLetter(c) == c \in DOMAIN LowerOf \/ c \in DOMAIN UpperOf

Title(text) ==
  [i \in 1..Len(text) |->
     IF i = 1 \/ ~IsLetter(text[i - 1]) THEN UpperChar(text[i])
     ELSE LowerChar(text[i])]

\* abs(percent_change) > 20
Significant(a, b) == PercentExceeds(a, b, 20)

\* The insights are appended in the iteration order of a set of strings,
\* which differs between runs: the result is kept as the set of them.
generate_category_comparison_insights(comparison_data) ==
  IF Len(comparison_data) < 2 THEN {}
  ELSE
    LET all_categories ==
          UNION {DOMAIN comparison_data[i].categories : i \in 1..Len(comparison_data)}
        Amount(i, category) ==
          IF category \in DOMAIN comparison_data[i].categories
          THEN comparison_data[i].categories[category] ELSE 0
        flagged == {category \in all_categories :
                      /\ Amount(1, category) > 0
                      /\ Significant(Amount(1, category), Amount(2, category))}
    IN { << IF Amount(2, category) - Amount(1, category) > 0
            THEN "increased" ELSE "decreased",
            Title(category),
            FormatPercent(Amount(1, category), Amount(2, category)) >> :
         category \in flagged }

(***************************************************************************)
(* AnalyticsService.answer_query: the routing on the intent and the store  *)
(* reads of the handler it reaches.                                        *)
(***************************************************************************)
PeriodRoute(data) ==
  LET granularity == DataGet(data, "granularity", JStr("month"))
  IN IF granularity = JStr("month") THEN "_monthly_analysis"
     ELSE IF granularity = JStr("week") THEN "_weekly_analysis"
     ELSE IF granularity = JStr("year") THEN "_yearly_analysis"
     ELSE "_trend_analysis"

Periods(data) ==
  LET time_periods == DataGet(data, "time_periods", JArr(<<>>))
  IN IF time_periods[1] = "arr" THEN time_periods[2] ELSE <<>>

ComparisonRoute(data) ==
  LET comparison_type == DataGet(data, "comparison_type", JsonNull)
  IN IF comparison_type = JStr("time_periods") /\ Len(Periods(data)) >= 2
       THEN "_compare_time_periods"
     ELSE IF comparison_type = JStr("categories_over_time")
       THEN "_compare_categories_over_time"
     ELSE PeriodRoute(data)

\* The handler answer_query reaches, or the exception the lookup
\* parsed_query["analysis_type"] raises.
Route(intent) ==
  IF intent[1] # "obj" THEN [raised |-> TRUE, exc |-> "TypeError", handler |-> "none"]
  ELSE IF "analysis_type" \notin DOMAIN intent[2]
    THEN [raised |-> TRUE, exc |-> "KeyError: 'analysis_type'", handler |-> "none"]
  ELSE
    LET data == intent[2]
        analysis_type == data["analysis_type"]
    IN [raised |-> FALSE, exc |-> "none",
        handler |->
          IF analysis_type = JStr("comparison") THEN ComparisonRoute(data)
          ELSE IF analysis_type = JStr("trend") THEN "_trend_analysis"
          ELSE IF analysis_type = JStr("category_breakdown") THEN "_category_analysis"
          ELSE IF analysis_type = JStr("total") THEN "_total_spending_analysis"
          ELSE IF analysis_type = JStr("period_analysis") THEN PeriodRoute(data)
          ELSE "_category_analysis"]

\* The number of get_expenses calls (one store read each) of a handler.
ReadsOf(handler, data) ==
  IF handler = "_compare_time_periods"
    THEN Len(Periods(data))
         * (IF DataGet(data, "include_category_breakdown", JBool(FALSE)) = JBool(TRUE)
            THEN 3 ELSE 2)
  ELSE IF handler = "_compare_categories_over_time" THEN Len(Periods(data))
  ELSE IF handler = "_total_spending_analysis" THEN 2
  ELSE 1

RECURSIVE ReadRecords(_, _)
ReadRecords(ctx, k) ==
  IF k = 0 THEN [ctx |-> ctx, raised |-> FALSE]
  ELSE IF Raises(ctx) THEN [ctx |-> Called(ctx, "get_all_records"), raised |-> TRUE]
  ELSE ReadRecords(Called(ctx, "get_all_records"), k - 1)

(***************************************************************************)
(* AnalyticsService: the handlers.  Each gives the "data" of its result, a *)
(* record, and <<>> for the empty dict; the charts are left out.           *)
(***************************************************************************)
\* _parse_date: None for a missing or malformed date.
parse_date(value) == IF value[1] = "date" THEN fromisoformat(value[2]) ELSE <<>>

\* The dates of "if time_periods: period = time_periods[0]".
FirstPeriodDates(data) ==
  LET time_periods == Periods(data)
  IN IF time_periods # <<>>
     THEN [start_date |-> parse_date(DataGet(time_periods[1][2], "start_date", JsonNull)),
           end_date |-> parse_date(DataGet(time_periods[1][2], "end_date", JsonNull))]
     ELSE [start_date |-> <<>>, end_date |-> <<>>]

\* parsed_query.get("categories") as a list of names: <<>> when it is falsy.
CategoriesOf(data) ==
  LET categories == DataGet(data, "categories", JsonNull)
  IN IF categories[1] = "arr"
     THEN [i \in 1..Len(categories[2]) |-> categories[2][i][2]]
     ELSE <<>>

\* sum(d.values())
RECURSIVE SumValues(_)
SumValues(d) ==
  IF DOMAIN d = {} THEN 0
  ELSE LET key == CHOOSE k \in DOMAIN d : TRUE
       IN d[key] + SumValues([k \in DOMAIN d \ {key} |-> d[k]])

\* The breakdown with every named category kept, an absent one with 0.
KeepAbsent(category_spending, categories) ==
  [cat \in {categories[i] : i \in 1..Len(categories)} |->
     IF cat \in DOMAIN category_spending THEN category_spending[cat] ELSE 0]

\* {cat: category_spending.get(cat, 0) for cat in categories
\*  if cat in category_spending}
FilterPresent(category_spending, categories) ==
  [cat \in {categories[i] : i \in 1..Len(categories)} \cap DOMAIN category_spending |->
     category_spending[cat]]

\* The result of _category_analysis on the breakdown read.
CategoryData(category_spending, filtered) ==
  IF DOMAIN category_spending = {} THEN <<>>
  ELSE [category_breakdown |-> filtered, total |-> SumValues(filtered)]

FilterCategories(category_spending, categories) ==
  CategoryData(category_spending,
               IF categories # <<>>
               THEN FilterPresent(category_spending, categories)
               ELSE category_spending)

category_analysis(s, user_id, start_date, end_date, categories) ==
  FilterCategories(get_spending_by_category(s, user_id, start_date, end_date),
                   categories)

\* total / len(expenses) with no guard: the quotient as written, over
\* a count of 0 too.
AverageUnguarded(total, count) == <<"q", total, count>>

\* total / len(expenses) if expenses else 0
AveragePerTransaction(total, count) == IF count > 0 THEN Ratio(total, count) ELSE Zero

TotalData(total, count, categories) ==
  [average_per_transaction |-> AveragePerTransaction(total, count),
   filtered_categories |-> categories,
   total_amount |-> total,
   transaction_count |-> count]

\* sum(category_spending.get(cat, 0) for cat in categories)
SumOfNamed(category_spending, categories) ==
  SumSeq([i \in 1..Len(categories) |->
            IF categories[i] \in DOMAIN category_spending
            THEN category_spending[categories[i]] ELSE 0])

\* The expenses whose lower-cased category is one of the lower-cased names.
CountNamed(s, expenses, categories) ==
  Cardinality({i \in 1..Len(expenses) :
                 \E j \in 1..Len(categories) :
                   Lower(CategoryOf(s, expenses[i])) = Lower(categories[j])})

\* expenses is the read both branches make; the total of the unfiltered
\* branch, get_total_spending, is the sum over the same read.
TotalOfRead(s, expenses, categories) ==
  IF categories # <<>>
  THEN TotalData(SumOfNamed(SumByCategory(s, expenses), categories),
                 CountNamed(s, expenses, categories), categories)
  ELSE TotalData(SumSeq(Amounts(s, expenses)), Len(expenses), categories)

total_spending_analysis(s, user_id, start_date, end_date, categories) ==
  TotalOfRead(s, get_expenses(s, user_id, start_date, end_date, <<>>), categories)

\* _monthly_analysis, _weekly_analysis, _yearly_analysis and _trend_analysis:
\* the breakdown by the period and its average, or the ValueError of
\* get_spending_by_time_period.
PeriodData(period, spending) ==
  IF spending.raised THEN [raised |-> TRUE, data |-> <<>>]
  ELSE IF DOMAIN spending.value = {} THEN [raised |-> FALSE, data |-> <<>>]
  ELSE [raised |-> FALSE,
        data |-> [average |-> Ratio(SumValues(spending.value),
                                    Cardinality(DOMAIN spending.value)),
                  breakdown |-> spending.value,
                  period |-> period[2]]]

period_analysis(s, user_id, period, start_date, end_date) ==
  PeriodData(period,
             get_spending_by_time_period(s, user_id, period, start_date, end_date))

\* period.get("label", f"{start_date} to {end_date}")
PeriodLabel(period, start_date, end_date) ==
  DataGet(period[2], "label", <<"range", start_date, end_date>>)

\* One entry of period_data, from the read of its window: get_total_spending,
\* get_expenses and get_spending_by_category select the same rows.
PeriodEntry(s, label, start_date, end_date, expenses, include_category_breakdown) ==
  [average_per_transaction |->
     AveragePerTransaction(SumSeq(Amounts(s, expenses)), Len(expenses)),
   category_breakdown |-> IF include_category_breakdown = JBool(TRUE)
                          THEN <<SumByCategory(s, expenses)>> ELSE <<>>,
   end_date |-> end_date,
   label |-> label,
   start_date |-> start_date,
   total_spending |-> SumSeq(Amounts(s, expenses)),
   transaction_count |-> Len(expenses)]

PeriodOfWindow(s, user_id, period, start_date, end_date, include_category_breakdown) ==
  PeriodEntry(s, PeriodLabel(period, start_date, end_date), start_date, end_date,
              get_expenses(s, user_id, start_date, end_date, <<>>),
              include_category_breakdown)

ComparisonData(period_data) ==
  [insights |-> generate_comparison_insights(period_data), periods |-> period_data]

compare_time_periods(s, user_id, data) ==
  ComparisonData(
    [i \in 1..Len(Periods(data)) |->
       PeriodOfWindow(s, user_id, Periods(data)[i],
                      parse_date(DataGet(Periods(data)[i][2], "start_date", JsonNull)),
                      parse_date(DataGet(Periods(data)[i][2], "end_date", JsonNull)),
                      DataGet(data, "include_category_breakdown", JBool(FALSE)))])

CategoriesOfWindow(s, user_id, period, start_date, end_date, categories) ==
  [categories |->
     IF categories # <<>>
     THEN KeepAbsent(get_spending_by_category(s, user_id, start_date, end_date),
                     categories)
     ELSE get_spending_by_category(s, user_id, start_date, end_date),
   end_date |-> end_date,
   period |-> PeriodLabel(period, start_date, end_date),
   start_date |-> start_date]

CategoryComparisonData(comparison_data) ==
  [insights |-> generate_category_comparison_insights(comparison_data),
   periods |-> comparison_data]

compare_categories_over_time(s, user_id, data) ==
  CategoryComparisonData(
    [i \in 1..Len(Periods(data)) |->
       CategoriesOfWindow(s, user_id, Periods(data)[i],
                          parse_date(DataGet(Periods(data)[i][2], "start_date", JsonNull)),
                          parse_date(DataGet(Periods(data)[i][2], "end_date", JsonNull)),
                          CategoriesOf(data))])

\* The granularity a period handler groups by: its own for the monthly,
\* weekly and yearly analyses, else the intent's, with the default "day" of
\* _handle_trend_analysis or "month" of _handle_period_analysis.
GranularityOf(handler, data) ==
  IF handler = "_monthly_analysis" THEN JStr("month")
  ELSE IF handler = "_weekly_analysis" THEN JStr("week")
  ELSE IF handler = "_yearly_analysis" THEN JStr("year")
  ELSE IF DataGet(data, "analysis_type", JsonNull) = JStr("trend")
    THEN DataGet(data, "granularity", JStr("day"))
  ELSE DataGet(data, "granularity", JStr("month"))

Returned(value) == [raised |-> FALSE, data |-> value]

\* The data the handler returns, or the exception it raises; dates are those
\* of the first window.
HandlerOn(handler, data, s, user_id, dates) ==
  IF handler = "_compare_time_periods"
    THEN Returned(compare_time_periods(s, user_id, data))
  ELSE IF handler = "_compare_categories_over_time"
    THEN Returned(compare_categories_over_time(s, user_id, data))
  ELSE IF handler = "_category_analysis"
    THEN Returned(category_analysis(s, user_id, dates.start_date, dates.end_date,
                                    CategoriesOf(data)))
  ELSE IF handler = "_total_spending_analysis"
    THEN Returned(total_spending_analysis(s, user_id, dates.start_date,
                                          dates.end_date, CategoriesOf(data)))
  ELSE period_analysis(s, user_id, GranularityOf(handler, data),
                       dates.start_date, dates.end_date)

HandlerResult(handler, data, s, user_id) ==
  HandlerOn(handler, data, s, user_id, FirstPeriodDates(data))

\* What answer_query returns or raises, given the route, the store reads and
\* the handler's result.
Answer(route, reads, result, ctx) ==
  IF route.raised
    THEN [raised |-> TRUE, exc |-> route.exc, handler |-> "none", ctx |-> ctx,
          data |-> <<>>]
  ELSE IF reads.raised
    THEN [raised |-> TRUE, exc |-> StoreError, handler |-> route.handler,
          ctx |-> reads.ctx, data |-> <<>>]
  ELSE IF result.raised
    THEN [raised |-> TRUE, exc |-> "ValueError", handler |-> route.handler,
          ctx |-> reads.ctx, data |-> <<>>]
  ELSE [raised |-> FALSE, exc |-> "none", handler |-> route.handler,
        ctx |-> reads.ctx, data |-> result.data]

RouteAnswer(route, intent, user_id, ctx) ==
  Answer(route,
         ReadRecords(ctx, ReadsOf(route.handler, intent[2])),
         HandlerResult(route.handler, intent[2], ctx.sheet, user_id),
         ctx)

answer_query(intent, user_id, ctx) == RouteAnswer(Route(intent), intent, user_id, ctx)

\* The response of the endpoint to what answer_query returned or raised.
AnalyticsResponse(base, p, a, reply) ==
  IF a.raised
  THEN [base EXCEPT
          !.status = 500,
          !.detail = <<"Failed to generate analytics: ", a.exc>>,
          !.path = p.path, !.model_calls = 1, !.exc = a.exc,
          !.model_raised = reply.raises,
          !.route = a.handler, !.calls = a.ctx.calls]
  ELSE [base EXCEPT
          !.status = 200, !.ok = TRUE,
          !.path = p.path, !.model_calls = 1,
          !.model_raised = reply.raises,
          !.route = a.handler, !.calls = a.ctx.calls,
          !.data = a.data]

Interpret(request, p, user_id, fault, reply) ==
  AnalyticsResponse([request EXCEPT !.intent = p.intent], p,
                    answer_query(p.intent, user_id, NewCtx(sheet, fault)), reply)

get_analytics(token, query, user_id, reply, today, fault) ==
  /\ resp' = IF ~get_current_user(token, now)
             THEN [Unauthorized("get_analytics", token) EXCEPT
                     !.text = query, !.user = user_id, !.fault = fault]
             ELSE Interpret([Response("get_analytics", token) EXCEPT
                               !.text = query, !.user = user_id, !.fault = fault],
                            parse_analytics_query(query, reply, today),
                            user_id, fault, reply)
  /\ prev' = Project(resp)
  /\ UNCHANGED <<sheet, now, inflight>>

(***************************************************************************)
(* Direct calls of the GoogleSheetsService operations.                     *)
(***************************************************************************)
CallAddExpense(e, fault) ==
  LET r == Sheets_add_expense(NewCtx(sheet, fault), e)
  IN /\ Len(sheet) < MaxDataRows + 1
     /\ sheet' = r.ctx.sheet
     /\ resp' = [Response("Sheets_add_expense", NoToken) EXCEPT
                   !.ok = ~r.raised, !.row_number = r.ret,
                   !.calls = r.ctx.calls, !.fault = fault]
     /\ prev' = Project(resp)
     /\ UNCHANGED <<now, inflight>>

CallUpdateExpense(row_number, e, fault) ==
  LET r == Sheets_update_expense(NewCtx(sheet, fault), row_number, e)
  IN /\ sheet' = r.ctx.sheet
     /\ resp' = [Response("Sheets_update_expense", NoToken) EXCEPT
                   !.ok = r.ret, !.row = row_number,
                   !.calls = r.ctx.calls, !.fault = fault]
     /\ prev' = Project(resp)
     /\ UNCHANGED <<now, inflight>>

CallDeleteExpense(row_number, fault) ==
  LET r == Sheets_delete_expense(NewCtx(sheet, fault), row_number)
  IN /\ sheet' = r.ctx.sheet
     /\ resp' = [Response("Sheets_delete_expense", NoToken) EXCEPT
                   !.ok = r.ret, !.row = row_number,
                   !.calls = r.ctx.calls, !.fault = fault]
     /\ prev' = Project(resp)
     /\ UNCHANGED <<now, inflight>>

CallGetExpenseByRow(row_number, fault) ==
  LET r == Sheets_get_expense_by_row(NewCtx(sheet, fault), row_number)
  IN /\ sheet' = r.ctx.sheet
     /\ resp' = [Response("Sheets_get_expense_by_row", NoToken) EXCEPT
                   !.ok = r.found, !.row = row_number, !.record = r.expense,
                   !.calls = r.ctx.calls, !.fault = fault]
     /\ prev' = Project(resp)
     /\ UNCHANGED <<now, inflight>>

(***************************************************************************)
(* The start of a GoogleSheetsService: __init__ runs _setup_headers on the *)
(* worksheet as it finds it.  data holds the sheet setup left.             *)
(***************************************************************************)
SetupHeaders(fault, outage) ==
  LET r == setup_headers(NewCtx(sheet, fault), outage)
  IN /\ Len(sheet) <= MaxDataRows + 1
     /\ sheet' = r.ctx.sheet
     /\ resp' = [Response("_setup_headers", NoToken) EXCEPT
                   !.ok = ~r.raised, !.calls = r.ctx.calls, !.fault = fault,
                   !.exc = IF r.raised THEN StoreError ELSE "none",
                   !.data = r.ctx.sheet]
     /\ prev' = Project(resp)
     /\ UNCHANGED <<now, inflight>>

(***************************************************************************)
(* Requests served by two workers on the same sheet.  The store is shared: *)
(* each worker's store calls take effect one at a time, and the calls of   *)
(* another worker's request may fall between two calls of a request.       *)
(* inflight[w] is the request worker w has begun: what it has read and the *)
(* store calls it has made.                                                *)
(***************************************************************************)
Workers == {"first", "second"}

Idle ==
  [op |-> "none", row |-> 0, existing |-> <<>>, expense |-> <<>>,
   calls |-> <<>>, base |-> <<>>]

\* DELETE /expenses/row/{N}, up to its existence check: get_expense_by_row.
DeleteChecks(w, token, row_number) ==
  LET g == Sheets_get_expense_by_row(NewCtx(sheet, 0), row_number)
      base == [Response("delete_expense_by_row", token) EXCEPT !.row = row_number]
  IN /\ inflight[w] = Idle
     /\ IF ~get_current_user(token, now)
        THEN /\ resp' = [Unauthorized("delete_expense_by_row", token) EXCEPT
                           !.row = row_number]
             /\ prev' = Project(resp)
             /\ UNCHANGED inflight
        ELSE IF ~g.found
        THEN /\ resp' = NotFound(base, g.ctx.calls)
             /\ prev' = Project(resp)
             /\ UNCHANGED inflight
        ELSE /\ inflight' = [inflight EXCEPT ![w] =
                               [Idle EXCEPT !.op = "delete_expense_by_row",
                                            !.row = row_number,
                                            !.existing = g.expense,
                                            !.calls = g.ctx.calls,
                                            !.base = base]]
             /\ UNCHANGED <<resp, prev>>
     /\ UNCHANGED <<sheet, now>>

\* The rest of the DELETE: delete_expense on the sheet as it is now, and the
\* response, which reports the row read by the check.  data holds the row
\* delete_rows removed.
DeleteRemoves(w) ==
  LET f == inflight[w]
      d == Sheets_delete_expense([sheet |-> sheet, calls |-> f.calls, fault |-> 0],
                                 f.row)
  IN /\ f.op = "delete_expense_by_row"
     /\ sheet' = d.ctx.sheet
     /\ resp' = IF ~d.ret
                THEN [f.base EXCEPT
                        !.status = 500,
                        !.detail = <<"Failed to delete expense at row">>,
                        !.calls = d.ctx.calls]
                ELSE [f.base EXCEPT
                        !.status = 200, !.ok = TRUE,
                        !.record = <<f.existing>>,
                        !.calls = d.ctx.calls,
                        !.data = <<sheet[f.row]>>]
     /\ prev' = Project(resp)
     /\ inflight' = [inflight EXCEPT ![w] = Idle]
     /\ UNCHANGED now

\* GoogleSheetsService.add_expense, up to its append_row.
AddAppends(w, e) ==
  /\ inflight[w] = Idle
  /\ Len(sheet) < MaxDataRows + 1
  /\ sheet' = append_row(sheet, AddRowData(e))
  /\ inflight' = [inflight EXCEPT ![w] =
                    [Idle EXCEPT !.op = "Sheets_add_expense",
                                 !.expense = <<e>>,
                                 !.calls = <<"append_row">>,
                                 !.base = Response("Sheets_add_expense", NoToken)]]
  /\ UNCHANGED <<now, resp, prev>>

\* The rest of add_expense: the row count of get_all_values on the sheet as
\* it is now, returned as the row number.  data holds the sheet that was read.
AddCounts(w) ==
  LET f == inflight[w]
  IN /\ f.op = "Sheets_add_expense"
     /\ resp' = [f.base EXCEPT
                   !.ok = TRUE, !.expense = f.expense,
                   !.row_number = Len(get_all_values(sheet)),
                   !.calls = Append(f.calls, "get_all_values"),
                   !.data = sheet]
     /\ prev' = Project(resp)
     /\ inflight' = [inflight EXCEPT ![w] = Idle]
     /\ UNCHANGED <<sheet, now>>

(***************************************************************************)
(* Direct calls of the read operations of GoogleSheetsService.  A bound of *)
(* the window is <<date>> or <<>> for None, the category <<name>> or <<>>. *)
(***************************************************************************)
ReadArgs(start_date, end_date, category, period) ==
  [start_date |-> start_date, end_date |-> end_date, category |-> category,
   period |-> period]

CallGetExpenses(user_id, start_date, end_date, category) ==
  /\ resp' = [Response("Sheets_get_expenses", NoToken) EXCEPT
                !.ok = TRUE, !.user = user_id,
                !.args = ReadArgs(start_date, end_date, category, <<>>),
                !.calls = <<"get_all_records">>,
                !.data = get_expenses(sheet, user_id, start_date, end_date, category)]
  /\ prev' = Project(resp)
  /\ UNCHANGED <<sheet, now, inflight>>

CallGetSpendingByCategory(user_id, start_date, end_date) ==
  /\ resp' = [Response("Sheets_get_spending_by_category", NoToken) EXCEPT
                !.ok = TRUE, !.user = user_id,
                !.args = ReadArgs(start_date, end_date, <<>>, <<>>),
                !.calls = <<"get_all_records">>,
                !.data = get_spending_by_category(sheet, user_id, start_date, end_date)]
  /\ prev' = Project(resp)
  /\ UNCHANGED <<sheet, now, inflight>>

CallGetSpendingByTimePeriod(user_id, period, start_date, end_date) ==
  LET r == get_spending_by_time_period(sheet, user_id, JStr(period),
                                       start_date, end_date)
  IN /\ resp' = [Response("Sheets_get_spending_by_time_period", NoToken) EXCEPT
                   !.ok = ~r.raised, !.user = user_id,
                   !.exc = IF r.raised THEN "ValueError" ELSE "none",
                   !.args = ReadArgs(start_date, end_date, <<>>, <<period>>),
                   !.calls = <<"get_all_records">>,
                   !.data = r.value]
     /\ prev' = Project(resp)
     /\ UNCHANGED <<sheet, now, inflight>>

CallGetTotalSpending(user_id, start_date, end_date) ==
  /\ resp' = [Response("Sheets_get_total_spending", NoToken) EXCEPT
                !.ok = TRUE, !.user = user_id,
                !.args = ReadArgs(start_date, end_date, <<>>, <<>>),
                !.calls = <<"get_all_records">>,
                !.data = get_total_spending(sheet, user_id, start_date, end_date)]
  /\ prev' = Project(resp)
  /\ UNCHANGED <<sheet, now, inflight>>

(***************************************************************************)
(* Direct calls of the two insight functions of AnalyticsService.           *)
(***************************************************************************)
WindowLabels == << JStr("first"), JStr("second"), JStr("third"), JStr("fourth") >>

\* period_data of the windows with the given totals, one transaction each.
PeriodDataOf(totals) ==
  [i \in 1..Len(totals) |->
     [average_per_transaction |-> Ratio(totals[i], 1),
      category_breakdown |-> <<>>,
      end_date |-> <<>>, label |-> WindowLabels[i], start_date |-> <<>>,
      total_spending |-> totals[i], transaction_count |-> 1]]

\* comparison_data of the windows with the given category maps.
ComparisonDataOf(maps) ==
  [i \in 1..Len(maps) |->
     [categories |-> maps[i], end_date |-> <<>>, period |-> WindowLabels[i],
      start_date |-> <<>>]]

\* One window per total, in the order of the totals.
CallComparisonInsights(totals) ==
  /\ resp' = [Response("_generate_comparison_insights", NoToken) EXCEPT
                !.ok = TRUE, !.data = ComparisonData(PeriodDataOf(totals))]
  /\ prev' = Project(resp)
  /\ UNCHANGED <<sheet, now, inflight>>

\* One window per category map, in the order of the maps.
CallCategoryComparisonInsights(maps) ==
  /\ resp' = [Response("_generate_category_comparison_insights", NoToken) EXCEPT
                !.ok = TRUE, !.data = CategoryComparisonData(ComparisonDataOf(maps))]
  /\ prev' = Project(resp)
  /\ UNCHANGED <<sheet, now, inflight>>

(***************************************************************************)
(* Direct calls of the date-window resolver and of the fallback query      *)
(* interpreter, on the date of the clock.                                  *)
(***************************************************************************)
CallParseTimeRange(query) ==
  /\ resp' = [Response("_parse_time_range", NoToken) EXCEPT
                !.ok = TRUE, !.text = query,
                !.data = parse_time_range(query, DateOf(now))]
  /\ prev' = Project(resp)
  /\ UNCHANGED <<sheet, now, inflight>>

CallFallbackQueryParsing(query) ==
  /\ resp' = [Response("_fallback_query_parsing", NoToken) EXCEPT
                !.ok = TRUE, !.text = query, !.path = "fallback",
                !.intent = fallback_query_parsing(query, DateOf(now))]
  /\ prev' = Project(resp)
  /\ UNCHANGED <<sheet, now, inflight>>

\* The days after the epoch (Monday 2024-01-15) on which rows are added:
\* Saturday 2024-01-20 and Sunday 2024-01-21.
ReadDays == {5, 6}

(***************************************************************************)
(* The clock.                                                              *)
(***************************************************************************)
ClockValues ==
  {k * access_token_expire_minutes + j : k \in 0..MaxDays, j \in 0..1}

Tick ==
  /\ \E t \in ClockValues : t > now /\ now' = t
  /\ UNCHANGED <<sheet, resp, prev, inflight>>

\* Midnight: the clock reaches the start of the next day.
DayPasses ==
  /\ now \div (24 * 60) < MaxDays
  /\ now' = (now \div (24 * 60) + 1) * 24 * 60
  /\ UNCHANGED <<sheet, resp, prev, inflight>>

\* Days pass between two requests: the clock reaches the start of a later day
\* of ReadDays.
DaysPass ==
  /\ \E day \in ReadDays : day * 24 * 60 > now /\ now' = day * 24 * 60
  /\ UNCHANGED <<sheet, resp, prev, inflight>>

\* Midnight, over the days of the calendar the windows are resolved on.
CalendarDayPasses ==
  /\ now \div (24 * 60) < MaxCalendarDays
  /\ now' = (now \div (24 * 60) + 1) * 24 * 60
  /\ UNCHANGED <<sheet, resp, prev, inflight>>

(***************************************************************************)
(* Inputs.                                                                 *)
(***************************************************************************)
LunchText == <<"l","u","n","c","h"," ","$","1","2"," ","a","t"," ","n","o","o","n">>
TaxiText == <<"T","A","X","I"," ","7",".","5">>
Coffee == <<"c","o","f","f","e","e">>

Texts == {LunchText, TaxiText}

RowNumbers == (-1)..(MaxDataRows + 2)

\* Faults(k): which of the k store calls of a request raises (0: none).
Faults(k) == 0..k

Raising == [raises |-> TRUE, text |-> <<>>]

Reply(text) == [raises |-> FALSE, text |-> text]

ExpenseReplies ==
  { Raising,
    Reply(<< <<"prose">> >>),
    Reply(<< <<"list">> >>),
    Reply(<< <<"prose">>,
             <<"obj", [amount |-> Str(<<"4",".","5">>),
                       category |-> Str(<<"F","o","o","d">>),
                       currency |-> Str(<<"u","s","d">>)]>>,
             <<"prose">> >>) }

\* Request bodies of PUT: pydantic has validated the category against the enum.
UpdateBody == [ParsedExpense(0, 500, SGD, CAT_GROCERIES, Coffee) EXCEPT !.user_id = Alice]

UpdateBodies == {UpdateBody, ParsedExpense(0, -250, USD, CAT_TRAVEL, Coffee)}

\* The model's replies tried on the row endpoints: a failure, and an object
\* with a negative amount and a category outside the enum.
RefundReply ==
  Reply(<< <<"obj", [amount |-> Num(-500), category |-> Str(<<"S","n","a","c","k","s">>),
                     description |-> Str(<<"r","e","f","u","n","d">>)]>> >>)

RowReplies == {Raising, RefundReply}

ValidToken == create_access_token([sub |-> "default_user", type |-> "access"], 0)

\* Tokens a request may carry: signed with the service's key or another,
\* of either type, issued at the start of one of the days.
Tokens ==
  { [key |-> k, sub |-> "default_user", type |-> ty,
     exp |-> d * access_token_expire_minutes + access_token_expire_minutes] :
    k \in {jwt_secret_key, "forged_key"}, ty \in {"access", "refresh"},
    d \in 0..MaxDays }

AuthRows == {2}

CompareQuery ==
  <<"C","o","m","p","a","r","e"," ","t","h","i","s"," ","m","o","n","t","h"," ",
    "v","s"," ","l","a","s","t"," ","m","o","n","t","h">>

January15 == [y |-> 2024, m |-> 1, d |-> 15]

Passwords == {static_password, "wrong_password"}

HowMuchQuery == <<"h","o","w"," ","m","u","c","h"," ","o","n"," ","f","o","o","d">>

VersusQuery ==
  <<"F","O","O","D"," ","V","E","R","S","U","S"," ","T","R","A","V","E","L">>

MonthsQuery ==
  <<"t","h","i","s"," ","m","o","n","t","h"," ","a","n","d"," ",
    "l","a","s","t"," ","m","o","n","t","h">>

TvsQuery == <<"n","e","w"," ","t","v","s">>

Queries == {CompareQuery, HowMuchQuery, VersusQuery, MonthsQuery, TvsQuery}

Intent(fields) == <<"obj", fields>>

AnalyticsReplies ==
  { Raising,
    Reply(<< <<"prose">> >>),
    Reply(<< <<"fence", "json">>,
             Intent([analysis_type |-> JStr("total"),
                     time_periods |-> JArr(<< Window("all", JsonNull, JsonNull) >>)]),
             <<"fence", "plain">> >>),
    Reply(<< <<"fence", "plain">>,
             Intent([analysis_type |-> JStr("trend")]),
             <<"fence", "plain">> >>),
    Reply(<< Intent([analysis_type |-> JStr("comparison"),
                     comparison_type |-> JStr("time_periods"),
                     time_periods |-> JArr(<< Window("a", JsonNull, JsonNull),
                                              Window("b", JsonNull, JsonNull) >>)]) >>),
    Reply(<< Intent([analysis_type |-> JStr("comparison"),
                     comparison_type |-> JStr("categories_over_time")]) >>),
    Reply(<< Intent([analysis_type |-> JStr("period_analysis"),
                     granularity |-> JStr("week")]) >>),
    Reply(<< Intent([analysis_type |-> JStr("period_analysis"),
                     granularity |-> JStr("year")]) >>),
    Reply(<< Intent([analysis_type |-> JStr("summary")]) >>),
    Reply(<< Intent([time_periods |-> JArr(<<>>)]) >>),
    Reply(<< <<"list">> >>),
    Reply(<< <<"null">> >>) }

\* The day after January15, and the windows of one day each.
January16 == [y |-> 2024, m |-> 1, d |-> 16]

FirstDay == Window("first day", JDate(January15), JDate(January15))

SecondDay == Window("second day", JDate(January16), JDate(January16))

Snacks == <<"s","n","a","c","k","s">>

\* The model's intents tried on the aggregation: every analysis type, filters
\* naming a category without rows, a category outside the enum and a
\* capitalised one, and a granularity outside the four periods.
AggregationReplies ==
  { Raising,
    Reply(<< Intent([analysis_type |-> JStr("category_breakdown"),
                     categories |-> JArr(<< JStr(CAT_FOOD), JStr(CAT_TRAVEL) >>)]) >>),
    Reply(<< Intent([analysis_type |-> JStr("category_breakdown"),
                     categories |-> JArr(<< JStr(Snacks) >>),
                     time_periods |-> JArr(<< SecondDay >>)]) >>),
    Reply(<< Intent([analysis_type |-> JStr("total"),
                     categories |-> JArr(<< JStr(<<"F","o","o","d">>) >>)]) >>),
    Reply(<< Intent([analysis_type |-> JStr("total"),
                     time_periods |-> JArr(<< FirstDay >>)]) >>),
    Reply(<< Intent([analysis_type |-> JStr("period_analysis"),
                     granularity |-> JStr("decade")]) >>),
    Reply(<< Intent([analysis_type |-> JStr("period_analysis")]) >>),
    Reply(<< Intent([analysis_type |-> JStr("trend")]) >>),
    Reply(<< Intent([analysis_type |-> JStr("comparison"),
                     comparison_type |-> JStr("time_periods"),
                     time_periods |-> JArr(<< FirstDay, SecondDay >>),
                     include_category_breakdown |-> JBool(TRUE)]) >>),
    Reply(<< Intent([analysis_type |-> JStr("comparison"),
                     comparison_type |-> JStr("categories_over_time"),
                     categories |-> JArr(<< JStr(CAT_FOOD), JStr(CAT_OTHER) >>),
                     time_periods |-> JArr(<< FirstDay, SecondDay >>)]) >>) }

AnalyticsUsers == {Alice, DefaultUser}

\* The windows' totals and the categories' amounts tried on the insight
\* functions, in hundredths: a negative and a zero baseline, the pairs
\* 0.70 and 0.84, 0.70 and 0.56, 10.00 and 12.00 at 20% of change, and the
\* totals 100.00 and 150.00.
MaxPeriods == 3

InsightTotals == {-500, 0, 70, 84, 10000, 15000}

InsightAmounts == {-500, 0, 56, 70, 84, 1000, 1200}

PeriodTotals == UNION {[1..n -> InsightTotals] : n \in 0..MaxPeriods}

\* The categories of a window: food with any of the amounts or absent,
\* travel absent or 10.00.
CategoryMaps ==
  {[c \in {CAT_FOOD} |-> a] : a \in InsightAmounts}
    \cup {[c \in {CAT_FOOD, CAT_TRAVEL} |-> IF c = CAT_FOOD THEN a ELSE 1000] :
            a \in InsightAmounts}
    \cup {[c \in {CAT_TRAVEL} |-> 1000], <<>>}

CategoryWindows == UNION {[1..n -> CategoryMaps] : n \in 1..2}

\* Queries of the date-window resolver: each phrase alone, two phrases, a
\* phrase in capitals and no phrase; and of the fallback interpreter.
ShoutedMonthsQuery == <<"T","H","I","S"," ","M","O","N","T","H",","," ","L","A","S","T"," ","M","O","N","T","H">>

RangeQueries ==
  { ThisMonth, LastMonth, ThisWeek, LastWeek, ThisYear, LastYear, Last30Days,
    PastMonth, Last7Days, PastWeek, MonthsQuery, ShoutedMonthsQuery, HowMuchQuery }

FallbackQueries == { CompareQuery, MonthsQuery, ShoutedMonthsQuery, LastMonth, HowMuchQuery }

\* The worksheets a service may find when it starts: up to MaxDataRows + 1
\* rows, each the expected header, a header with another first title, a row
\* of no cells or an expense row.
OtherHeader == [expected_headers EXCEPT ![1] = Str(<<"W","h","e","n">>)]

StartRows ==
  { expected_headers, OtherHeader, <<>>,
    AddRowData(fallback_parse(LunchText, 0)) }

StartSheets == UNION {[1..n -> StartRows] : n \in 0..(MaxDataRows + 1)}

\* The rows the workers' DELETE requests name: no row, row 1 and the data rows.
WorkerRows == 0..(MaxDataRows + 1)

\* The rows and the reads tried on the read operations: rows of two users in
\* two categories with an amount each, read for one of the users over windows
\* bounded by the Saturday or open, with a category in capitals.
ReadUsers == {Alice, DefaultUser}

Readers == {Alice}

ReadCategories == {CAT_FOOD, CAT_TRAVEL}

ReadAmount(category) == IF category = CAT_FOOD THEN 1200 ELSE 750

ReadExpense(user_id, category, clock) ==
  [ParsedExpense(clock, ReadAmount(category), SGD, category, Coffee) EXCEPT
     !.user_id = user_id]

January20 == [y |-> 2024, m |-> 1, d |-> 20]

ReadStarts == { <<>>, <<January20>> }

ReadEnds == { <<>>, <<January20>> }

ShoutedFood == <<"F","O","O","D">>

ReadFilters == { <<>>, <<ShoutedFood>>, <<CAT_TRAVEL>> }

(***************************************************************************)
(* Specifications.                                                         *)
(***************************************************************************)
Init ==
  /\ sheet = << expected_headers >>
  /\ now = 0
  /\ resp = Response("none", NoToken)
  /\ prev = Project(Response("none", NoToken))
  /\ inflight = [w \in Workers |-> Idle]

\* The row endpoints, called with a valid token.
Next ==
  \/ \E text \in Texts, reply \in RowReplies, fault \in Faults(2) :
       add_expense(ValidToken, text, Alice, reply, fault)
  \/ \E row_number \in RowNumbers, fault \in Faults(1) :
       get_expense_by_row(ValidToken, row_number, fault)
  \/ \E row_number \in RowNumbers, body \in UpdateBodies, fault \in Faults(3) :
       update_expense_by_row(ValidToken, row_number, body, fault)
  \/ \E row_number \in RowNumbers, fault \in Faults(3) :
       delete_expense_by_row(ValidToken, row_number, fault)

Spec == Init /\ [][Next]_vars

\* The service operations, called directly.
NextService ==
  \/ \E text \in Texts, fault \in Faults(2) :
       CallAddExpense(fallback_parse(text, now), fault)
  \/ \E row_number \in RowNumbers, body \in UpdateBodies, fault \in Faults(2) :
       CallUpdateExpense(row_number, body, fault)
  \/ \E row_number \in RowNumbers, fault \in Faults(2) :
       CallDeleteExpense(row_number, fault)
  \/ \E row_number \in RowNumbers, fault \in Faults(1) :
       CallGetExpenseByRow(row_number, fault)

SpecService == Init /\ [][NextService]_vars

\* Login and requests carrying any token, as the clock advances.
NextAuth ==
  \/ \E password \in Passwords : login(password)
  \/ Tick
  \/ \E token \in Tokens :
       add_expense(token, LunchText, Alice, Raising, 0)
  \/ \E token \in Tokens, row_number \in AuthRows :
       get_expense_by_row(token, row_number, 0)
  \/ \E token \in Tokens, row_number \in AuthRows :
       update_expense_by_row(token, row_number, UpdateBody, 0)
  \/ \E token \in Tokens, row_number \in AuthRows :
       delete_expense_by_row(token, row_number, 0)
  \/ \E token \in Tokens :
       get_analytics(token, CompareQuery, DefaultUser, Raising, January15, 0)

SpecAuth == Init /\ [][NextAuth]_vars

\* Expense extraction and analytics, with every outcome of the model call.
NextAnalytics ==
  \/ \E reply \in ExpenseReplies, fault \in Faults(2) :
       add_expense(ValidToken, LunchText, Alice, reply, fault)
  \/ \E query \in Queries, reply \in AnalyticsReplies, fault \in Faults(2) :
       get_analytics(ValidToken, query, DefaultUser, reply, January15, fault)

SpecAnalytics == Init /\ [][NextAnalytics]_vars

\* The analyses over rows added on successive days, each request carrying a
\* token issued as it is made.
NextAggregation ==
  LET token == create_access_token([sub |-> "default_user", type |-> "access"], now)
  IN \/ \E text \in Texts : add_expense(token, text, Alice, Raising, 0)
     \/ DayPasses
     \/ \E user_id \in AnalyticsUsers, reply \in AggregationReplies :
          get_analytics(token, HowMuchQuery, user_id, reply, DateOf(now), 0)

SpecAggregation == Init /\ [][NextAggregation]_vars

\* The insight functions on every sampled period_data and comparison_data.
NextInsights ==
  \/ \E totals \in PeriodTotals : CallComparisonInsights(totals)
  \/ \E maps \in CategoryWindows : CallCategoryComparisonInsights(maps)

SpecInsights == Init /\ [][NextInsights]_vars

\* The date windows of the resolver and of the fallback interpreter, day
\* after day.
NextWindows ==
  \/ CalendarDayPasses
  \/ \E query \in RangeQueries : CallParseTimeRange(query)
  \/ \E query \in FallbackQueries : CallFallbackQueryParsing(query)

SpecWindows == Init /\ [][NextWindows]_vars

\* A service starting on any of the worksheets, and starting again.
InitSetup ==
  /\ sheet \in StartSheets
  /\ now = 0
  /\ resp = [Response("none", NoToken) EXCEPT !.before = <<>>]
  /\ prev = Project(Response("none", NoToken))
  /\ inflight = [w \in Workers |-> Idle]

NextSetup == \E fault \in Faults(3), outage \in BOOLEAN : SetupHeaders(fault, outage)

SpecSetup == InitSetup /\ [][NextSetup]_vars

\* DELETE requests and add_expense calls of the two workers, interleaved at
\* their store calls.
NextWorkers ==
  \/ \E w \in Workers, row_number \in WorkerRows : DeleteChecks(w, ValidToken, row_number)
  \/ \E w \in Workers : DeleteRemoves(w)
  \/ \E w \in Workers, text \in Texts : AddAppends(w, fallback_parse(text, now))
  \/ \E w \in Workers : AddCounts(w)

SpecWorkers == Init /\ [][NextWorkers]_vars

\* The read operations over rows written on several days by two users.
NextReads ==
  \/ \E user_id \in ReadUsers, category \in ReadCategories :
       CallAddExpense(ReadExpense(user_id, category, now), 0)
  \/ DaysPass
  \/ \E user_id \in Readers, start_date \in ReadStarts, end_date \in ReadEnds,
        category \in ReadFilters :
       CallGetExpenses(user_id, start_date, end_date, category)
  \/ \E user_id \in Readers, start_date \in ReadStarts, end_date \in ReadEnds :
       CallGetSpendingByCategory(user_id, start_date, end_date)
  \/ \E user_id \in Readers, period \in TimePeriods, start_date \in ReadStarts,
        end_date \in ReadEnds :
       CallGetSpendingByTimePeriod(user_id, period, start_date, end_date)
  \/ \E user_id \in Readers, start_date \in ReadStarts, end_date \in ReadEnds :
       CallGetTotalSpending(user_id, start_date, end_date)

SpecReads == Init /\ [][NextReads]_vars

(***************************************************************************)
(* Properties of the row store and the row endpoints.                      *)
(***************************************************************************)
RowOps == {"update_expense_by_row", "delete_expense_by_row", "get_expense_by_row"}

\* The record GET returns for the row at position n holding the cells row.
RecordOf(row, n) == Append(Zip(expected_headers, row), <<Str(RowNumberKey), IntCell(n)>>)

\* C1: after delete_expense(N) succeeds the sheet has one row less, every row
\* above N is unchanged, and every position k >= N holds the row that was at
\* k + 1 before the delete.
C1_IndexShiftOnDelete ==
  (resp.op = "Sheets_delete_expense" /\ resp.ok) =>
    /\ resp.row \in 2..Len(resp.before)
    /\ Len(sheet) = Len(resp.before) - 1
    /\ \A k \in 1..(resp.row - 1) : sheet[k] = resp.before[k]
    /\ \A k \in resp.row..Len(sheet) : sheet[k] = resp.before[k + 1]

\* A delete succeeded above a different row, which moved up into its place.
C1_Witness ==
  /\ resp.op = "Sheets_delete_expense" /\ resp.ok
  /\ resp.row < Len(resp.before)
  /\ resp.before[resp.row] # resp.before[resp.row + 1]
  /\ sheet[resp.row] = resp.before[resp.row + 1]

\* The request before the last was a successful DELETE of row N and the last
\* is a GET of the same row N.
DeleteThenGet ==
  /\ prev.op = "delete_expense_by_row"
  /\ resp.op = "get_expense_by_row"
  /\ resp.row = prev.row

\* C2 as stated: a successful DELETE of row N followed by a GET of row N
\* returns 404.
C2_GetAfterDeleteNotFound == DeleteThenGet => resp.status = 404

\* C2, amended: a successful DELETE of row N followed by a GET of row N returns
\* 404 when N was the last row or the store read raises; otherwise it returns
\* 200 with the record that stood at row N + 1 before the delete.
C2_GetAfterDeleteShifted ==
  DeleteThenGet =>
    IF prev.shifted = <<>> \/ Raised(resp)
    THEN resp.status = 404
    ELSE /\ resp.status = 200
         /\ resp.record = << RecordOf(prev.shifted[1], resp.row) >>

\* A GET of row N after the DELETE of row N answered 200 with the row below.
C2_Witness ==
  /\ DeleteThenGet
  /\ resp.status = 200
  /\ prev.shifted # <<>>
  /\ resp.record = << RecordOf(prev.shifted[1], resp.row) >>

\* C3: after any sequence of add_expense, update_expense and delete_expense
\* calls with any row_number, row 1 of the sheet is still the 13-column header.
C3_HeaderRow == sheet[1] = expected_headers

\* The amount in hundredths and the category the fallback rule gives a text.
ExpectedFallback(text) ==
  IF text = LunchText THEN <<Num(1200), Str(CAT_FOOD)>>
  ELSE IF text = TaxiText THEN <<Num(750), Str(CAT_TRANSPORTATION)>>
  ELSE <<Num(0), Str(CAT_OTHER)>>

\* The request before the last added an expense by the fallback parse and
\* the last is a GET of the row number it returned, with the store answering.
AddThenGet ==
  /\ prev.op = "add_expense" /\ prev.path = "fallback"
  /\ resp.op = "get_expense_by_row"
  /\ resp.row = prev.row
  /\ ~Raised(resp)

\* C4: when the model fails, adding an expense from text and then reading back
\* the row number the add returned yields the record just added: its amount is
\* the first number of the text, its category the fallback rule's ("lunch $12
\* at noon": 12.00 and food), its user the requested user_id.
C4_RoundTrip ==
  AddThenGet =>
    /\ resp.status = 200
    /\ LET record == resp.record[1]
       IN /\ DictGet(record, AmountKey) = ExpectedFallback(prev.text)[1]
          /\ DictGet(record, CategoryKey) = ExpectedFallback(prev.text)[2]
          /\ DictGet(record, DescriptionKey) = Str(prev.text)
          /\ DictGet(record, UserKey) = Str(prev.user)
          /\ DictGet(record, Str(RowNumberKey)) = IntCell(prev.row)

\* "lunch $12 at noon" was added for alice with the model raising, and read back.
C4_Witness ==
  /\ AddThenGet
  /\ prev.text = LunchText /\ prev.user = Alice
  /\ resp.status = 200
  /\ DictGet(resp.record[1], AmountKey) = Num(1200)

\* C5: when POST /expenses, PUT or DELETE /expenses/row/{row_number} ends in an
\* error response, the sheet's rows are what they were before the request.
C5_NoPartialFailure ==
  (resp.op \in {"add_expense", "update_expense_by_row", "delete_expense_by_row"}
   /\ resp.status # 200) =>
    sheet = resp.before

(***************************************************************************)
(* Properties of failures, of the authentication gate, of stored records   *)
(* and of the query interpreter.                                           *)
(***************************************************************************)
PostOps == {"add_expense", "get_analytics"}

\* C6 as stated, for the model call: when the extraction model's call raises
\* during POST /expenses or POST /analytics, the request ends in a 500.
C6_ModelFailureIsError ==
  (resp.op \in PostOps /\ resp.model_raised) => resp.status = 500

\* C6, amended: in POST /expenses and POST /analytics the model is called
\* once; a model call that raises is caught inside the service and replaced by
\* the fallback result, so that the request fails only if a store call raises;
\* a store call that raises is the request's last store call (no retry) and
\* ends the request in a 500 whose detail carries the exception's text.
C6_FailureCaughtOnce ==
  (resp.op \in PostOps /\ resp.status # 401) =>
    /\ resp.model_calls = 1
    /\ resp.model_raised =>
         /\ resp.path = "fallback"
         /\ resp.status = IF Raised(resp) THEN 500 ELSE 200
    /\ Raised(resp) =>
         /\ resp.status = 500
         /\ resp.fault = Len(resp.calls)
         /\ resp.detail[2] = StoreError

\* A POST /expenses whose model call raised was answered 200 and stored the
\* fallback's row.
C6_Witness ==
  /\ resp.op = "add_expense" /\ resp.model_raised
  /\ resp.path = "fallback" /\ resp.model_calls = 1
  /\ resp.status = 200 /\ Len(sheet) = Len(resp.before) + 1

\* C7: GET, PUT and DELETE /expenses/row/{row_number} answer 404 when
\* row_number <= 1 or row_number is above the row count, and leave the sheet
\* unchanged.
C7_OutOfRangeNotFound ==
  (resp.op \in RowOps /\ resp.status # 401
   /\ (resp.row <= 1 \/ resp.row > Len(resp.before))) =>
    /\ resp.status = 404
    /\ sheet = resp.before

\* A PUT of row 1, with data rows present, was answered 404.
C7_Witness ==
  /\ resp.op = "update_expense_by_row" /\ resp.row = 1
  /\ Len(resp.before) >= 2
  /\ resp.status = 404 /\ sheet = resp.before

\* A token that is badly signed, expired at the request's time, or not of
\* type "access".
InvalidToken(r) ==
  \/ r.token.key # jwt_secret_key
  \/ r.token.exp < r.at
  \/ r.token.type # "access"

\* C8: login returns a token exactly when the password is the configured
\* one, and answers 401 without a token otherwise; a request whose token is
\* badly signed, expired or of another type is answered 401 with no store
\* call made and the sheet unchanged.
C8_AuthenticationGate ==
  /\ resp.op = "login" =>
       IF resp.text = <<static_password>>
       THEN resp.status = 200 /\ Len(resp.issued) = 1
            /\ resp.issued[1].key = jwt_secret_key
            /\ resp.issued[1].type = "access"
            /\ resp.issued[1].exp = resp.at + access_token_expire_minutes
       ELSE resp.status = 401 /\ resp.issued = <<>>
  /\ (resp.op \notin {"none", "login"} /\ InvalidToken(resp)) =>
       /\ resp.status = 401
       /\ resp.calls = <<>>
       /\ sheet = resp.before

\* A DELETE of an existing row carrying a well-signed access token that had
\* expired was answered 401, and the row is still there.
C8_Witness ==
  /\ resp.op = "delete_expense_by_row"
  /\ resp.token.key = jwt_secret_key /\ resp.token.type = "access"
  /\ resp.token.exp < resp.at
  /\ resp.row \in 2..Len(resp.before)
  /\ resp.status = 401 /\ sheet = resp.before

\* C9: every stored record has amount >= 0 and a category of the enum.
C9_StoredRecordsValid ==
  \A k \in 2..Len(sheet) :
    /\ sheet[k][4][2] >= 0
    /\ sheet[k][6][2] \in ExpenseCategory

\* C10: whatever the model call does, answer_query routes the intent
\* parse_analytics_query returns without raising on it.
C10_IntentRoutable ==
  resp.op = "get_analytics" => resp.exc \notin {"TypeError", "KeyError: 'analysis_type'"}

(***************************************************************************)
(* Properties of the intent the query interpreter returns.                 *)
(***************************************************************************)
\* A POST /analytics that passed the authentication gate.
Interpreted == resp.op = "get_analytics" /\ resp.status # 401

IsObject(value) == value[1] = "obj"

\* C11: when the model's reply is JSON lacking a required field of the intent
\* (analysis_type), the interpreter returns the fallback intent instead and
\* the request does not fail: every intent taken from the model has the field.
C11_MissingFieldFallsBack ==
  (Interpreted /\ resp.path = "model" /\ IsObject(resp.intent)) =>
    /\ "analysis_type" \in DOMAIN resp.intent[2]
    /\ resp.exc # "KeyError: 'analysis_type'"

\* C12: every intent the interpreter returns with analysis type comparison
\* and comparison type time_periods has at least two time windows.
C12_ComparisonHasTwoWindows ==
  (Interpreted /\ IsObject(resp.intent)
   /\ DataGet(resp.intent[2], "analysis_type", JsonNull) = JStr("comparison")
   /\ DataGet(resp.intent[2], "comparison_type", JsonNull) = JStr("time_periods")) =>
    Len(Periods(resp.intent[2])) >= 2

\* The sampled queries whose lower-cased text holds "vs", "versus", "compare"
\* or "comparison", and those that hold both "this month" and "last month".
ComparisonQueries == {CompareQuery, VersusQuery, TvsQuery}

TwoMonthQueries == {CompareQuery, MonthsQuery}

\* C13: the fallback intent is comparison / time_periods / comparison_bar
\* exactly when the lower-cased query holds one of the comparison words, and
\* category_breakdown / pie otherwise; its windows are the single unbounded
\* window "all time" unless the query names both this month and last month.
C13_FallbackRuleTable ==
  (Interpreted /\ resp.path = "fallback") =>
    LET data == resp.intent[2]
    IN /\ IF resp.text \in ComparisonQueries
          THEN /\ data.analysis_type = JStr("comparison")
               /\ data.comparison_type = JStr("time_periods")
               /\ data.chart_type = JStr("comparison_bar")
          ELSE /\ data.analysis_type = JStr("category_breakdown")
               /\ data.comparison_type = JsonNull
               /\ data.chart_type = JStr("pie")
       /\ IF resp.text \in TwoMonthQueries
          THEN Len(Periods(data)) = 2
          ELSE Periods(data) = << Window("all time", JsonNull, JsonNull) >>

\* The fallback read an upper-case "VERSUS" as a comparison, over all time.
C13_Witness ==
  /\ Interpreted /\ resp.path = "fallback"
  /\ resp.text = VersusQuery
  /\ resp.intent[2].analysis_type = JStr("comparison")
  /\ Periods(resp.intent[2]) = << Window("all time", JsonNull, JsonNull) >>

(***************************************************************************)
(* Properties of the aggregation behind the analytics endpoint.            *)
(***************************************************************************)
\* The request was routed to a handler.
Aggregated == Interpreted /\ resp.route # "none"

\* The category filter of the request's intent.
FilterOf(r) == CategoriesOf(r.intent[2])

\* The rows the request's user has in its first window.
Selected(r) ==
  get_expenses(r.before, r.user, FirstPeriodDates(r.intent[2]).start_date,
               FirstPeriodDates(r.intent[2]).end_date, <<>>)

HasRows(r, category) ==
  \E i \in 1..Len(Selected(r)) : CategoryOf(r.before, Selected(r)[i]) = category

\* C14: in the intent that reaches aggregation, every category of the
\* category filter is a member of the category enum and the granularity is
\* one of day, week, month and year, so that no aggregation fails on an
\* unknown granularity.
C14_IntentValidated ==
  Aggregated =>
    /\ \A i \in 1..Len(FilterOf(resp)) : FilterOf(resp)[i] \in ExpenseCategory
    /\ DataGet(resp.intent[2], "granularity", JStr("month"))
         \in {JStr(period) : period \in TimePeriods}
    /\ resp.exc # "ValueError"

\* C17: a category breakdown over selected rows, whose filter names a
\* category none of these rows has, succeeds and returns that category in
\* the breakdown with amount 0.
C17_AbsentCategoryIsZero ==
  (Aggregated /\ resp.route = "_category_analysis" /\ ~Raised(resp)
     /\ Selected(resp) # <<>>) =>
    /\ resp.status = 200
    /\ \A i \in 1..Len(FilterOf(resp)) :
         ~HasRows(resp, FilterOf(resp)[i]) =>
           /\ "category_breakdown" \in DOMAIN resp.data
           /\ FilterOf(resp)[i] \in DOMAIN resp.data.category_breakdown
           /\ resp.data.category_breakdown[FilterOf(resp)[i]] = 0

\* C18: a category breakdown over an empty result set (no rows of the user
\* in the window) is not an error, and its data has total 0 and an empty
\* breakdown.
C18_EmptyResultIsZeroTotal ==
  (Aggregated /\ resp.route = "_category_analysis" /\ ~Raised(resp)
     /\ Selected(resp) = <<>>) =>
    /\ resp.status = 200
    /\ "total" \in DOMAIN resp.data
    /\ resp.data.total = 0
    /\ "category_breakdown" \in DOMAIN resp.data
    /\ DOMAIN resp.data.category_breakdown = {}

\* C19: the total analysis never fails on the division: whatever the rows
\* and the filter, average_per_transaction is total_amount over
\* transaction_count when the count is positive and 0 when the count is 0,
\* and over an empty row set the total is 0.
C19_AverageGuarded ==
  (Aggregated /\ resp.route = "_total_spending_analysis" /\ ~Raised(resp)) =>
    /\ resp.status = 200
    /\ resp.data.transaction_count > 0 =>
         /\ resp.data.average_per_transaction[3] > 0
         /\ resp.data.average_per_transaction[2] * resp.data.transaction_count
              = resp.data.total_amount * resp.data.average_per_transaction[3]
    /\ resp.data.transaction_count = 0 => resp.data.average_per_transaction = Zero
    /\ Selected(resp) = <<>> =>
         /\ resp.data.total_amount = 0
         /\ resp.data.transaction_count = 0

\* C19's case: rows are stored, none is counted, and the average is 0.
C19_Witness ==
  /\ Aggregated /\ resp.route = "_total_spending_analysis" /\ resp.status = 200
  /\ Len(resp.before) > 1
  /\ resp.data.transaction_count = 0
  /\ resp.data.average_per_transaction = Zero

(***************************************************************************)
(* Properties of the insights of the two comparisons.                      *)
(***************************************************************************)
\* The comparison insights of at least two windows were computed.
ComparedTwo ==
  resp.op = "_generate_comparison_insights" /\ Len(resp.data.periods) >= 2

\* tenths is magnitude / base * 100 rounded to a tenth (base > 0).
RendersPercent(tenths, magnitude, base) ==
  2 * Abs(tenths * base - magnitude * 1000) <= base

\* The first insight reports the change from a to b with its direction.
ReportsChange(change, a, b) ==
  /\ b > a => change[1] = "increased" /\ change[2] = b - a
  /\ b < a => change[1] = "decreased" /\ change[2] = a - b
  /\ b = a => change = <<"same">>

LastMaxPeriod(period_data) ==
  CHOOSE i \in 1..Len(period_data) :
    /\ \A j \in 1..Len(period_data) :
         period_data[j].total_spending <= period_data[i].total_spending
    /\ \A j \in (i + 1)..Len(period_data) :
         period_data[j].total_spending < period_data[i].total_spending

\* C16: when the highest and the lowest window are reported, the highest is
\* the latest-declared of the windows with the maximum total and the lowest
\* the earliest-declared of those with the minimum total.
C16_TieBreak ==
  (ComparedTwo /\ Len(resp.data.insights) = 3) =>
    /\ resp.data.insights[2]
         = <<"highest", resp.data.periods[LastMaxPeriod(resp.data.periods)].label,
             resp.data.periods[LastMaxPeriod(resp.data.periods)].total_spending>>
    /\ resp.data.insights[3]
         = <<"lowest", resp.data.periods[MinPeriod(resp.data.periods)].label,
             resp.data.periods[MinPeriod(resp.data.periods)].total_spending>>

\* The category comparison insights of at least two windows were computed.
ComparedCategories ==
  resp.op = "_generate_category_comparison_insights" /\ Len(resp.data.periods) >= 2

AmountIn(window, category) ==
  IF category \in DOMAIN window.categories THEN window.categories[category] ELSE 0

Flagged(category) == \E insight \in resp.data.insights : insight[2] = Title(category)

\* C20: for each category whose baseline amount is not negative, a
\* significant change is flagged exactly when the magnitude of its change
\* between the first two windows is more than 20% of the baseline: a change
\* of exactly 20% is not flagged, and neither is one from a baseline of 0.
C20_SignificantOverTwenty ==
  ComparedCategories =>
    \A category \in {CAT_FOOD, CAT_TRAVEL} :
      LET a == AmountIn(resp.data.periods[1], category)
          b == AmountIn(resp.data.periods[2], category)
      IN a >= 0 => (Flagged(category) <=> (a > 0 /\ Abs(b - a) * 100 > 20 * a))

(***************************************************************************)
(* Properties of the date windows.                                         *)
(***************************************************************************)
\* The resolver was called with the phrase as the whole query.
ResolvedFor(phrase) == resp.op = "_parse_time_range" /\ resp.text = phrase

\* The months since year 0 of a date, and its days since 2001-01-01 (a
\* Monday), for a date of the years 2001..2099.
MonthIndex(date) == date.y * 12 + date.m

Ordinal(date) ==
  365 * (date.y - 2001) + (date.y - 2001) \div 4 + YearDay(date)

\* C21: on every current date the window resolved for "last month" runs from
\* the first to the last day of the calendar month before the current one; in
\* January that month is December of the year before, and on 2024-01-15 the
\* window is [2023-12-01, 2023-12-31].
C21_LastMonthWindow ==
  ResolvedFor(LastMonth) =>
    LET today == DateOf(resp.at)
        start_date == resp.data.start_date[1]
        end_date == resp.data.end_date[1]
    IN /\ MonthIndex(start_date) + 1 = MonthIndex(today)
       /\ MonthIndex(end_date) = MonthIndex(start_date)
       /\ start_date.m \in 1..12
       /\ start_date.d = 1
       /\ end_date.d = DaysInMonth(end_date.y, end_date.m)
       /\ today.m = 1 =>
            start_date.y = today.y - 1 /\ start_date.m = 12 /\ end_date.y = today.y - 1
       /\ today = January15 =>
            /\ start_date = [y |-> 2023, m |-> 12, d |-> 1]
            /\ end_date = [y |-> 2023, m |-> 12, d |-> 31]

\* "last month" was resolved on 2024-01-15 to [2023-12-01, 2023-12-31].
C21_Witness ==
  /\ ResolvedFor(LastMonth)
  /\ DateOf(resp.at) = January15
  /\ resp.data = DateRange([y |-> 2023, m |-> 12, d |-> 1],
                           [y |-> 2023, m |-> 12, d |-> 31])

\* C22: on every current date "this week" resolves to [M, today], M the most
\* recent Monday not after today, and "last week" to [M - 7 days, M - 1 day].
C22_WeekWindows ==
  LET today == DateOf(resp.at)
      monday == Ordinal(today) - (Ordinal(today) % 7)
  IN /\ ResolvedFor(ThisWeek) =>
          /\ Ordinal(resp.data.start_date[1]) = monday
          /\ resp.data.end_date[1] = today
     /\ ResolvedFor(LastWeek) =>
          /\ Ordinal(resp.data.start_date[1]) = monday - 7
          /\ Ordinal(resp.data.end_date[1]) = monday - 1

\* "this week" was resolved on Wednesday 2024-01-17 to [2024-01-15, 2024-01-17].
C22_Witness ==
  /\ ResolvedFor(ThisWeek)
  /\ DateOf(resp.at) = [y |-> 2024, m |-> 1, d |-> 17]
  /\ resp.data = DateRange(January15, [y |-> 2024, m |-> 1, d |-> 17])

\* The fallback interpreter was called with a query holding both phrases.
FellBackOnBothMonths ==
  /\ resp.op = "_fallback_query_parsing"
  /\ Contains(Lower(resp.text), ThisMonth)
  /\ Contains(Lower(resp.text), LastMonth)

\* The window is labelled so and its bounds are the ISO dates of the range.
WindowIs(window, label, range) ==
  /\ window[2].label = JStr(label)
  /\ parse_date(window[2].start_date) = range.start_date
  /\ parse_date(window[2].end_date) = range.end_date

\* C23: on every current date the two windows the fallback interpreter builds
\* for a query holding "this month" and "last month" are the windows the
\* resolver returns for "this month" and for "last month" on that date, in
\* that order, labelled "This Month" and "Last Month".
C23_FallbackWindowsAsResolved ==
  FellBackOnBothMonths =>
    /\ Len(resp.intent[2].time_periods[2]) = 2
    /\ WindowIs(resp.intent[2].time_periods[2][1], "This Month",
                parse_time_range(ThisMonth, DateOf(resp.at)))
    /\ WindowIs(resp.intent[2].time_periods[2][2], "Last Month",
                parse_time_range(LastMonth, DateOf(resp.at)))

\* The fallback windows of "Compare this month vs last month" on 2024-03-01:
\* the second is February 2024.
C23_Witness ==
  /\ FellBackOnBothMonths
  /\ resp.text = CompareQuery
  /\ DateOf(resp.at) = [y |-> 2024, m |-> 3, d |-> 1]
  /\ resp.intent[2].time_periods[2][2]
       = Window("Last Month", JDate([y |-> 2024, m |-> 2, d |-> 1]),
                JDate([y |-> 2024, m |-> 2, d |-> 29]))

(***************************************************************************)
(* Properties of the read operations.                                      *)
(***************************************************************************)
\* The read operation was called and returned.
ReadOf(op) == resp.op = op /\ resp.ok

\* The rows of the sheet the read found that lie in the user's window.
SelectedRows(r) ==
  get_expenses(r.before, r.user, r.args.start_date, r.args.end_date, <<>>)

\* ISO 8601: weeks run from Monday to Sunday, and week 1 of a year is the
\* week of its first Thursday.  IsoWeek is the pair of the ISO year and the
\* week number of the date.
IsoWeeksIn(y) ==
  LET first == weekday([y |-> y, m |-> 1, d |-> 1])
  IN IF first = 3 \/ (first = 2 /\ IsLeap(y)) THEN 53 ELSE 52

IsoWeek(date) ==
  LET week == (YearDay(date) + 1 - (weekday(date) + 1) + 10) \div 7
  IN IF week < 1 THEN <<date.y - 1, IsoWeeksIn(date.y - 1)>>
     ELSE IF week > IsoWeeksIn(date.y) THEN <<date.y + 1, 1>>
     ELSE <<date.y, week>>

\* The numbers of the label the claim gives the bucket of a date.
BucketLabel(period, date) ==
  IF period = "day" THEN <<date.y, date.m, date.d>>
  ELSE IF period = "week" THEN IsoWeek(date)
  ELSE IF period = "month" THEN <<date.y, date.m>>
  ELSE <<date.y>>

\* The amounts of the rows whose date has the label, 0 for the other rows.
AmountsLabelled(s, rows, period, label) ==
  [i \in 1..Len(rows) |->
     IF BucketLabel(period, DateOfRecord(s, rows[i])) = label
     THEN AmountOf(s, rows[i]) ELSE 0]

\* C24: get_spending_by_time_period puts every selected row in exactly one
\* bucket, labelled with the day, the ISO week, the month or the year of the
\* row's date, and the value of each bucket is the sum of the amounts of the
\* rows with its label (so two dates share a week bucket exactly when they
\* lie in the same ISO week).
C24_PeriodBuckets ==
  ReadOf("Sheets_get_spending_by_time_period") =>
    LET rows == SelectedRows(resp)
        period == resp.args.period[1]
        buckets == resp.data
    IN /\ \A i \in 1..Len(rows) :
            Cardinality({key \in DOMAIN buckets :
                           Tail(key) = BucketLabel(period,
                                                   DateOfRecord(resp.before, rows[i]))}) = 1
       /\ \A key \in DOMAIN buckets :
            buckets[key] = SumSeq(AmountsLabelled(resp.before, rows, period, Tail(key)))

\* The cell of sheet row n in the column of the header.
CellAt(s, n, header) == s[n][IndexIn(expected_headers, header)]

\* Sheet row n is a row of the user, dated within the window of the call and,
\* when a category is given, of that category in any letter case.
RowMatches(s, n, user_id, args) ==
  LET d == DateOf(CellAt(s, n, DateKey)[3])
  IN /\ CellAt(s, n, UserKey)[2] = user_id
     /\ args.start_date # <<>> => DateLE(args.start_date[1], d)
     /\ args.end_date # <<>> => DateLE(d, args.end_date[1])
     /\ args.category # <<>> =>
          Upper(CellAt(s, n, CategoryKey)[2]) = Upper(args.category[1])

WorkerDeleted ==
  /\ resp.op = "delete_expense_by_row"
  /\ resp.status = 200
  /\ resp.data # <<>>

\* C26: however the store calls of two mutating requests interleave (two
\* DELETEs, or a DELETE and an add), the row a DELETE /expenses/row/{N}
\* removes is the row its existence check read and its response reports as
\* deleted_expense.
C26_DeleteRemovesTheRowItRead ==
  WorkerDeleted =>
    resp.record[1] = Append(Zip(expected_headers, resp.data[1]),
                            <<Str(RowNumberKey), IntCell(resp.row)>>)

\* A worker's add_expense returned a row number.
WorkerAdded ==
  /\ resp.op = "Sheets_add_expense"
  /\ resp.ok
  /\ resp.data # <<>>

\* C27: the row_number add_expense returns is the position of the row the call
\* appended, in the sheet its row count was read from, also when another
\* writer appended or deleted a row between the append and that read.
C27_RowNumberOfAppendedRow ==
  WorkerAdded =>
    /\ resp.row_number \in 2..Len(resp.data)
    /\ resp.data[resp.row_number] = AddRowData(resp.expense[1])

(***************************************************************************)
(* Properties relating the aggregations.                                   *)
(***************************************************************************)
\* The rows of the window whose category is one of the names, in any letter
\* case.
RowsNamed(s, rows, names) ==
  LET Named(row) ==
        \E j \in 1..Len(names) : Upper(CategoryOf(s, row)) = Upper(names[j])
  IN SelectSeq(rows, Named)

\* C28: in the total analysis with a category filter, total_amount is the sum
\* of the amounts of exactly the rows transaction_count counts, the rows of
\* the window whose category is one of the requested ones in any letter
\* case; so a positive total_amount comes with a positive transaction_count.
C28_TotalOfCountedRows ==
  (Aggregated /\ resp.route = "_total_spending_analysis" /\ ~Raised(resp)
     /\ resp.status = 200 /\ FilterOf(resp) # <<>>) =>
    LET counted == RowsNamed(resp.before, Selected(resp), FilterOf(resp))
    IN /\ resp.data.transaction_count = Len(counted)
       /\ resp.data.total_amount = SumSeq(Amounts(resp.before, counted))
       /\ resp.data.total_amount > 0 => resp.data.transaction_count > 0

\* One of the three aggregations was called and returned.
Aggregation ==
  /\ resp.op \in {"Sheets_get_spending_by_category",
                  "Sheets_get_spending_by_time_period",
                  "Sheets_get_total_spending"}
  /\ resp.ok

SetUp == resp.op = "_setup_headers" /\ ~Raised(resp)

\* C30: when no store call raises, _setup_headers leaves a sheet whose row 1
\* is the expected header untouched, makes the header row 1 of an empty
\* sheet, and replaces the rows of a sheet whose row 1 is anything else by
\* the header alone; in each case it completes and row 1 is the header.
C30_HeaderSetup ==
  SetUp =>
    LET before == resp.before
        after == resp.data
    IN /\ resp.ok
       /\ (before # <<>> /\ before[1] = expected_headers) => after = before
       /\ before = <<>> => after = << expected_headers >>
       /\ (before # <<>> /\ before[1] # expected_headers) =>
            after = << expected_headers >>
       /\ after # <<>> /\ after[1] = expected_headers

\* Setup found another header above an expense row and left the expected
\* header alone.
C30_Witness ==
  /\ SetUp
  /\ Len(resp.before) = 2
  /\ resp.before[1] = OtherHeader
  /\ resp.before[2] = AddRowData(fallback_parse(LunchText, 0))
  /\ resp.calls = <<"get_all_values", "clear", "append_row">>
  /\ resp.data = << expected_headers >>

====
